---- MODULE Spec2Model ----
(***************************************************************************)
(* Model of the download-and-convert pipeline of the studio repository:    *)
(* src/src/app/download-audio.action.ts (the AbortSignal variant, lines    *)
(* 536-999): sanitizeFilename, downloadAndConvertToMp3, downloadAudioAction *)
(* and the stream / timer callbacks they register.                         *)
(*                                                                         *)
(* One action of the model is one run-to-completion step of the Node event *)
(* loop: the code between the completion of one awaited I/O operation (or   *)
(* the delivery of one event) and the next suspension point.  The client's  *)
(* abort is its own action and so interleaves only at suspension points.   *)
(* Strings that the code inspects (titles, error messages, entry names)    *)
(* are sequences of one-character strings.                                 *)
(***************************************************************************)
EXTENDS Integers, Sequences, FiniteSets, TLC

(***************************************************************************)
(* Bounds of the model.                                                    *)
(***************************************************************************)
MaxItems == 2
NChunks == 2
MaxPtEvents == 2
MaxBatchItems == 3
MaxNameLen == 3
MaxAffixLen == 2
MaxFormats == 2
MaxAttempts == 2
MaxVideoItems == 2

(***************************************************************************)
(* Characters and strings.                                                 *)
(***************************************************************************)
LowerLetters ==
    {"a","b","c","d","e","f","g","h","i","j","k","l","m",
     "n","o","p","q","r","s","t","u","v","w","x","y","z"}

UpperLetters ==
    {"A","B","C","D","E","F","G","H","I","J","K","L","M",
     "N","O","P","Q","R","S","T","U","V","W","X","Y","Z"}

Digits == {"0","1","2","3","4","5","6","7","8","9"}

Whitespace == {" ", "\t", "\n"}

\* the character class [a-z0-9_.\-\s] under the flag i
AllowedChars == LowerLetters \cup UpperLetters \cup Digits \cup {"_", ".", "-"} \cup Whitespace

toLowerCaseChar(c) ==
    CASE c = "A" -> "a" [] c = "B" -> "b" [] c = "C" -> "c" [] c = "D" -> "d"
      [] c = "E" -> "e" [] c = "F" -> "f" [] c = "G" -> "g" [] c = "H" -> "h"
      [] c = "I" -> "i" [] c = "J" -> "j" [] c = "K" -> "k" [] c = "L" -> "l"
      [] c = "M" -> "m" [] c = "N" -> "n" [] c = "O" -> "o" [] c = "P" -> "p"
      [] c = "Q" -> "q" [] c = "R" -> "r" [] c = "S" -> "s" [] c = "T" -> "t"
      [] c = "U" -> "u" [] c = "V" -> "v" [] c = "W" -> "w" [] c = "X" -> "x"
      [] c = "Y" -> "y" [] c = "Z" -> "z" [] OTHER -> c

toLowerCase(s) == [k \in 1..Len(s) |-> toLowerCaseChar(s[k])]

\* String.prototype.includes
includes(s, sub) ==
    \E k \in 1..(Len(s) - Len(sub) + 1) : SubSeq(s, k, k + Len(sub) - 1) = sub

endsWith(s, sub) ==
    /\ Len(s) >= Len(sub)
    /\ SubSeq(s, Len(s) - Len(sub) + 1, Len(s)) = sub

RECURSIVE trimStart(_)
trimStart(s) ==
    IF s # <<>> /\ Head(s) \in Whitespace THEN trimStart(Tail(s)) ELSE s

RECURSIVE trimEnd(_)
trimEnd(s) ==
    IF s # <<>> /\ s[Len(s)] \in Whitespace THEN trimEnd(SubSeq(s, 1, Len(s) - 1)) ELSE s

\* String.prototype.trim
trim(s) == trimEnd(trimStart(s))

\* name.replace(/[^a-z0-9_.\-\s]/gi, '_')
replaceInvalid(s) ==
    [k \in 1..Len(s) |-> IF s[k] \in AllowedChars THEN s[k] ELSE "_"]

collapseWhitespaceSkipped(s) == s

\* .replace(/\s+/g, ' '): every maximal run of whitespace becomes one space:
\* the first character of a run becomes ' ', the others of the run nothing
collapseWhitespace(s) ==
    LET replaced == [k \in 1..Len(s) |->
                        IF s[k] \notin Whitespace THEN s[k]
                        ELSE IF k = 1 \/ s[k - 1] \notin Whitespace THEN " " ELSE ""]
        IsCharacter(c) == c # ""
    IN  SelectSeq(replaced, IsCharacter)

MaxNameLength == 100

ExtMp3 == <<".", "m", "p", "3">>
ExtZip == <<".", "z", "i", "p">>
ExtTxt == <<".", "t", "x", "t">>
FallbackPrefix ==
    <<"d","o","w","n","l","o","a","d","e","d","_","f","i","l","e">>

truncateNameSkipped(s) == s

truncateName(s) ==
    IF Len(s) > MaxNameLength THEN trim(SubSeq(s, 1, MaxNameLength)) ELSE s

replaceTrailingDotByNothing(s) ==
    IF endsWith(s, <<".">>) THEN SubSeq(s, 1, Len(s) - 1) ELSE s

replaceTrailingDot(s) ==
    IF endsWith(s, <<".">>) THEN SubSeq(s, 1, Len(s) - 1) \o <<"_">> ELSE s

fallbackName(s) ==
    IF s = <<>> \/ s = ExtMp3 \/ s = ExtZip THEN FallbackPrefix \o s ELSE s

sanitizeFilenameDotBeforeTruncation(name) ==
    fallbackName(truncateName(replaceTrailingDot(collapseWhitespace(replaceInvalid(name)))))

sanitizeFilename(name) ==
    fallbackName(replaceTrailingDot(truncateName(collapseWhitespace(replaceInvalid(name)))))

(***************************************************************************)
(* Inputs of one request and what the environment can answer.              *)
(***************************************************************************)
\* titles: one that sanitizeFilename changes, the name it changes it to, and one
\* that contains the word the cancellation tests look for
Titles ==
    { <<"b", "?">>, <<"b", "_">>, <<"C", "a", "n", "c", "e", "l">> }

\* videoInfo.videoDetails.title of a single video
SingleTitles ==
    Titles \cup { <<"T", "e", "s", "t", " ", "S", "o", "n", "g">> }

\* err.message of an error raised by ytdl-core, fs or ffmpeg
EnvMessages ==
    { <<"E", "O", "F">>,
      <<"c", "a", "n", "c", "e", "l", "e", "d">>,
      <<"a", "b", "o", "r", "t", "e", "d">> }

\* what ffmpeg wrote to stderr before it exited with an error
FfmpegStderr ==
    { <<"m", "o", "o", "v">>, <<"c", "o", "d", "e", "c">> }

ExitedWithCode ==
    <<"e", "x", "i", "t", "e", "d", " ", "w", "i", "t", "h", " ",
      "c", "o", "d", "e", " ", "1", ":", " ">>

\* err.message of the 'error' event of fluent-ffmpeg when ffmpeg exits with
\* an error: the exit code followed by the last lines of stderr
ffmpegErrorMessage(stderr) == ExitedWithCode \o stderr

\* videoInfo.formats: container, hasAudio, hasVideo and the video quality
Formats ==
    { [container |-> "mp4",  hasAudio |-> TRUE,  hasVideo |-> TRUE,  height |-> 360],
      [container |-> "webm", hasAudio |-> TRUE,  hasVideo |-> TRUE,  height |-> 720],
      [container |-> "mp4",  hasAudio |-> FALSE, hasVideo |-> TRUE,  height |-> 1080] }

\* the formats a video can offer when format selection is checked on its own
FormatInputs ==
    [ container : {"mp4", "webm"}, hasAudio : BOOLEAN, hasVideo : BOOLEAN,
      height : {360, 720} ]

NoFormat == [container |-> "none", hasAudio |-> FALSE, hasVideo |-> FALSE, height |-> 0]

RECURSIVE SeqsUpTo(_, _)
SeqsUpTo(S, n) ==
    IF n = 0 THEN { <<>> }
    ELSE LET shorter == SeqsUpTo(S, n - 1)
         IN  shorter \cup { Append(q, x) : q \in shorter, x \in S }

\* playlistItems: { url, title }[] | null
PlaylistInputs ==
    { [null |-> TRUE, list |-> <<>>] }
        \cup { [null |-> FALSE, list |-> q] : q \in SeqsUpTo(Titles, MaxItems) }

\* arguments of sanitizeFilename: short names, the bare extensions, and names
\* around MaxNameLength characters with every short beginning and end
NameChars == {"a", "Z", "7", " ", "\t", ".", "?", "-"}

AffixChars == {"a", " ", "."}

Repeat(c, n) == [k \in 1..n |-> c]

NameInputs ==
    SeqsUpTo(NameChars, MaxNameLen)
        \cup { ExtMp3, ExtZip }
        \cup { p \o Repeat("a", MaxNameLength - 2) \o q :
                 p \in SeqsUpTo(AffixChars, MaxAffixLen),
                 q \in SeqsUpTo(AffixChars, MaxAffixLen) }

(***************************************************************************)
(* Errors.  An error is its name, the template literal that built its      *)
(* message, the title interpolated in it and the inner err.message         *)
(* interpolated in it.                                                     *)
(***************************************************************************)
NoError == [name |-> "None", tpl |-> "None", title |-> <<>>, inner |-> <<>>]

Err(tpl, title, inner) ==
    [name |-> "Error", tpl |-> tpl, title |-> title, inner |-> inner]

\* the template literals whose fixed text contains "cancel" (case-insensitive);
\* none contains "abort"
CancelTemplates ==
    { "CancelledBeforeStart",        \* 637
      "CancelledDuringGetInfo",      \* 643
      "CancelledFormatSelection",    \* 662, 670
      "VideoDownloadCancelled",      \* 691, 700, 708, 720
      "CancelledBeforeConversion",   \* 730
      "CancelledDuringFfmpeg",       \* 783
      "CancelledPostFfmpeg",         \* 792
      "PlaylistCancelledIteration",  \* 819
      "PlaylistCancelledItem",       \* 836
      "PlaylistCancelledBeforeZip",  \* 847
      "SingleCancelledGetInfo",      \* 868
      "SingleCancelledBeforeProcessing" } \* 879

CancelWord == <<"c", "a", "n", "c", "e", "l">>
AbortWord == <<"a", "b", "o", "r", "t">>

\* error.message.toLowerCase().includes(word)
messageIncludes(e, word) ==
    \/ word = CancelWord /\ e.tpl \in CancelTemplates
    \/ includes(toLowerCase(e.title), word)
    \/ includes(toLowerCase(e.inner), word)

\* lines 828-830
isCancellation(e, signalAborted) ==
    \/ e.name = "AbortError"
    \/ messageIncludes(e, CancelWord)
    \/ signalAborted

\* lines 972-975
isCancellationError(e) ==
    \/ e.name = "AbortError"
    \/ messageIncludes(e, CancelWord)
    \/ messageIncludes(e, AbortWord)

(***************************************************************************)
(* Archive (JSZip).  zip.file(name, data) adds an entry, or replaces the   *)
(* entry that already has that name.                                       *)
(***************************************************************************)
ErrorPrefix == <<"E", "R", "R", "O", "R", "_">>
CancelledPrefix == <<"C", "A", "N", "C", "E", "L", "L", "E", "D", "_">>

mp3EntryName(title) == sanitizeFilename(title) \o ExtMp3

errorEntryNameWithoutTitle(title) == ErrorPrefix \o ExtTxt

errorEntryName(title) == ErrorPrefix \o sanitizeFilename(title) \o ExtTxt

cancelledEntryName(title) == CancelledPrefix \o sanitizeFilename(title) \o ExtTxt

\* content: the error whose message follows 'Failed to process: ' in an ERROR_
\* marker, NoError in the other entries (mp3Data and 'Processing cancelled
\* for: <title>' are given by item)
zipFile(z, name, kind, item, content) ==
    LET entry == [name |-> name, kind |-> kind, item |-> item, content |-> content]
    IN  IF \E k \in 1..Len(z) : z[k].name = name
        THEN [k \in 1..Len(z) |-> IF z[k].name = name THEN entry ELSE z[k]]
        ELSE Append(z, entry)

(***************************************************************************)
(* Response headers.                                                       *)
(***************************************************************************)
\* the characters encodeURIComponent leaves as they are
UriUnreserved ==
    LowerLetters \cup UpperLetters \cup Digits
        \cup {"-", "_", ".", "!", "~", "*", "'", "(", ")"}

encodeURIComponentChar(c) ==
    CASE c \in UriUnreserved -> <<c>>
      [] c = " "  -> <<"%", "2", "0">>
      [] c = "\t" -> <<"%", "0", "9">>
      [] c = "\n" -> <<"%", "0", "A">>
      [] c = "?"  -> <<"%", "3", "F">>

RECURSIVE encodeURIComponent(_)
encodeURIComponent(s) ==
    IF s = <<>> THEN <<>>
    ELSE encodeURIComponentChar(Head(s)) \o encodeURIComponent(Tail(s))

NoHeaders == [contentType |-> "none", filename |-> <<>>]

\* lines 897-901: filename is what stands between the quotes of Content-Disposition
audioHeaders(title) ==
    [ contentType |-> "audio/mpeg",
      filename |-> encodeURIComponent(sanitizeFilename(title) \o ExtMp3) ]

DefaultPlaylistTitle ==
    <<"y","o","u","t","u","b","e","_","p","l","a","y","l","i","s","t">>

\* lines 815 and 852-855; playlistTitle is the optional parameter
zipHeaders(playlistTitle) ==
    LET playlistName ==
            sanitizeFilename(IF playlistTitle = <<>> THEN DefaultPlaylistTitle
                             ELSE playlistTitle)
    IN  [ contentType |-> "application/zip", filename |-> playlistName \o ExtZip ]

(***************************************************************************)
(* State.                                                                  *)
(***************************************************************************)
VARIABLES
    isPlaylist,     \* parameter isPlaylist
    playlistItems,  \* parameter playlistItems
    playlistTitle,  \* parameter playlistTitle, <<>> when it is not passed
    videoFormats,   \* videoInfo.formats of the video of FormatSpec, {} elsewhere
    isClientCancelledInitially, \* parameter of the variant of src/unnamed/part_004
    area,           \* state and running handleDownload calls of one DownloadArea
    analysis,       \* one call of analyzeYoutubeUrlFlow: what it is given and returns
    aborted,        \* clientSignal.aborted
    abortPc,        \* history: the suspension point at which the abort arrived
    abortReason,    \* clientSignal.reason
    abortController, \* the abortController state of DownloadArea: "set" or "null"
    pc,             \* the suspension point downloadAudioAction is waiting at
    i,              \* loop variable of the batch loop (1-based), 0 for a single video
    tempDir,        \* "none", "exists" or "removed"
    files,          \* the files under tempDir: <<item, extension>>
    zip,            \* the JSZip entries, in insertion order
    itemStatus,     \* history, per playlist item: none, started, ok, failed, cancelled
    dc,             \* locals of the running or last downloadAndConvertToMp3 call
    orphanStreams,  \* ytdl streams that earlier downloadAndConvertToMp3 calls left open
    videoInfoLive,  \* videoInfo.videoDetails.isLiveContent of line 866
    result,         \* what downloadAudioAction returned
    resultError,    \* the error behind a returned { error }
    headers,        \* the headers of a returned Response
    timers,         \* number of setTimeout calls of the finally block
    stream,         \* fileStream, passThrough, ReadableStream and cleanup state
    name,           \* argument of a call of sanitizeFilename
    saneName,       \* what that call returned
    saneNameAgain,  \* what sanitizeFilename returned for saneName
    calls           \* number of calls of sanitizeFilename made: 0, 1 or 2

requestVars ==
    <<isPlaylist, playlistItems, playlistTitle, videoFormats, isClientCancelledInitially>>

\* what no step of a request changes: its inputs and the component's stage
inputVars == <<requestVars, area, analysis>>

signalVars == <<aborted, abortPc, abortReason, abortController>>

UserCancelled == "User cancelled download."
Rerendered == "Component re-render or new analysis."

abortOverwrites(signal, reason) == [aborted |-> TRUE, reason |-> reason]

\* AbortController.prototype.abort(reason), called at DownloadArea.tsx lines 49
\* and 206: an aborted signal keeps its state and its first reason
abort(signal, reason) ==
    IF signal.aborted THEN signal ELSE [aborted |-> TRUE, reason |-> reason]

serverVars ==
    <<pc, i, tempDir, files, zip, itemStatus, dc, orphanStreams, videoInfoLive, result,
      resultError, headers, timers, stream>>

sanitizeVars == <<name, saneName, saneNameAgain, calls>>

vars == <<inputVars, signalVars, serverVars, sanitizeVars>>

\* isPlaylist && playlistItems && playlistItems.length > 0   (line 813)
PlaylistBranch ==
    isPlaylist /\ ~playlistItems.null /\ Len(playlistItems.list) > 0

NumItems == Len(playlistItems.list)

IdleDc ==
    [ title |-> <<>>, isLive |-> FALSE, format |-> NoFormat,
      videoStream |-> "none", fileWriteStream |-> "none", ffmpeg |-> "none",
      downloadInterval |-> FALSE, conversionInterval |-> FALSE,
      ffmpegKilled |-> FALSE, pending |-> NoError, thrown |-> "None" ]

\* title and videoItems of an AnalyzeYoutubeUrlOutput: title is "undefined",
\* "" or a text, videoItems is undefined or has videoItemsLength items
EmptyOutput ==
    [ type |-> "unknown", title |-> "undefined",
      hasVideoItems |-> FALSE, videoItemsLength |-> 0 ]

\* no call of analyzeYoutubeUrlFlow
NoAnalysis ==
    [ pc |-> "none", typeFromLlm |-> "unknown", listUrl |-> FALSE,
      playlistIdValid |-> FALSE, videoUrlValid |-> FALSE,
      ytpl |-> [throws |-> TRUE, title |-> "", items |-> 0],
      getInfo |-> [throws |-> TRUE, title |-> ""],
      outputData |-> EmptyOutput ]

\* a handleDownload call that was not made yet
IdleAttempt ==
    [ pc |-> "none", aborted |-> FALSE, stage |-> "idle", abortController |-> 0,
      abortedAt |-> "none", ended |-> "none" ]

\* useState of lines 41 and 43; abortController is the number of the
\* handleDownload call that created the controller, 0 for null
IdleArea ==
    [ stage |-> "idle", abortController |-> 0, calls |-> 0,
      attempts |-> [k \in 1..MaxAttempts |-> IdleAttempt] ]

IdleStream ==
    [ fileStream |-> "none", passThrough |-> "none", passThroughError |-> FALSE,
      controller |-> "none", fed |-> 0, queue |-> 0, read |-> 0,
      cleanedUp |-> FALSE, cleanupCount |-> 0, events |-> 0 ]

\* the server-side state as one record, so that the steps below compose
Cur ==
    [ pc |-> pc, i |-> i, tempDir |-> tempDir, files |-> files, zip |-> zip,
      itemStatus |-> itemStatus, dc |-> dc, orphanStreams |-> orphanStreams,
      videoInfoLive |-> videoInfoLive,
      result |-> result, resultError |-> resultError, headers |-> headers,
      timers |-> timers,
      stream |-> stream ]

Set(s) ==
    /\ pc' = s.pc
    /\ i' = s.i
    /\ tempDir' = s.tempDir
    /\ files' = s.files
    /\ zip' = s.zip
    /\ itemStatus' = s.itemStatus
    /\ dc' = s.dc
    /\ orphanStreams' = s.orphanStreams
    /\ videoInfoLive' = s.videoInfoLive
    /\ result' = s.result
    /\ resultError' = s.resultError
    /\ headers' = s.headers
    /\ timers' = s.timers
    /\ stream' = s.stream
    /\ UNCHANGED <<inputVars, signalVars, sanitizeVars>>

(***************************************************************************)
(* downloadAudioAction: leaving the function.                              *)
(***************************************************************************)
FinallyWithoutTimer(s) == [s EXCEPT !.pc = "done"]

\* finally { setTimeout(() => fsp.rm(tempDir, ...), 5000) }   (lines 995-999)
Finally(s) == [s EXCEPT !.pc = "done", !.timers = @ + 1]

\* return <value>, through the finally block
Return(s, value, e) ==
    Finally([s EXCEPT !.result = value, !.resultError = e])

\* catch (error) of downloadAudioAction   (lines 970-994)
OuterCatch(s, e) ==
    IF isCancellationError(e)
    THEN Return(s, "cancelled", e)
    ELSE Return(s, "error", e)

SetItemStatus(s, status) ==
    IF PlaylistBranch THEN [s EXCEPT !.itemStatus[s.i] = status] ELSE s

(***************************************************************************)
(* The batch loop of downloadAudioAction and the synchronous parts of      *)
(* downloadAndConvertToMp3.  Each operator maps the state at the start of  *)
(* a run-to-completion step to the state at the next suspension point;     *)
(* signalAborted is clientSignal.aborted during that step.                 *)
(***************************************************************************)
RECURSIVE LoopHead(_, _)
RECURSIVE PipelineThrows(_, _, _)

\* downloadAndConvertToMp3 up to its first await   (lines 627-641).  The locals
\* of the previous call are gone; a videoStream it never ended or destroyed
\* (the 'error' handler of fileWriteStream, lines 705-713) stays open.
StartPipeline(s, title, signalAborted) ==
    LET orphans == IF s.dc.videoStream = "open" THEN 1 ELSE 0
        s1 == SetItemStatus([s EXCEPT !.dc = [IdleDc EXCEPT !.title = title],
                                      !.orphanStreams = @ + orphans], "started")
    IN  IF signalAborted
        THEN PipelineThrows(s1, Err("CancelledBeforeStart", title, <<>>), signalAborted)
        ELSE [s1 EXCEPT !.pc = "dc_getInfo"]

\* downloadAndConvertToMp3 returns tempMp3Path to line 823 or to line 882; its
\* local chosenFormat is gone
PipelineReturns(s) ==
    LET s1 == [s EXCEPT !.dc.format = NoFormat]
    IN  IF PlaylistBranch THEN [s1 EXCEPT !.pc = "readFile"] ELSE [s1 EXCEPT !.pc = "stat"]

ItemCatchRethrow(s, e, signalAborted) ==
    LET title == playlistItems.list[s.i]
    IN  IF isCancellation(e, signalAborted)
        THEN LET s1 == [SetItemStatus(s, "cancelled") EXCEPT
                          !.zip = zipFile(@, cancelledEntryName(title), "CANCELLED", s.i, NoError)]
             IN  IF signalAborted
                 THEN OuterCatch(s1, Err("PlaylistCancelledItem", e.title, e.inner))
                 ELSE LoopHead([s1 EXCEPT !.i = @ + 1], signalAborted)
        ELSE OuterCatch(SetItemStatus(s, "failed"), e)

\* catch (itemError) of the batch loop, then the next iteration   (lines 827-844)
ItemCatch(s, e, signalAborted) ==
    LET title == playlistItems.list[s.i]
    IN  IF isCancellation(e, signalAborted)
        THEN LET s1 == [SetItemStatus(s, "cancelled") EXCEPT
                          !.zip = zipFile(@, cancelledEntryName(title), "CANCELLED", s.i, NoError)]
             IN  IF signalAborted
                 THEN OuterCatch(s1, Err("PlaylistCancelledItem", e.title, e.inner))
                 ELSE LoopHead([s1 EXCEPT !.i = @ + 1], signalAborted)
        ELSE LoopHead([SetItemStatus(s, "failed") EXCEPT
                          !.zip = zipFile(@, errorEntryName(title), "ERROR", s.i, e),
                          !.i = @ + 1], signalAborted)

LoopHeadNoIterationCheck(s, signalAborted) ==
    IF s.i <= NumItems
    THEN StartPipeline(s, playlistItems.list[s.i], signalAborted)
    ELSE IF signalAborted
         THEN OuterCatch(s, Err("PlaylistCancelledBeforeZip", <<>>, <<>>))
         ELSE [s EXCEPT !.pc = "zipping"]

LoopHeadNoZipCheck(s, signalAborted) ==
    IF s.i <= NumItems
    THEN IF signalAborted
         THEN OuterCatch(s, Err("PlaylistCancelledIteration", <<>>, <<>>))
         ELSE StartPipeline(s, playlistItems.list[s.i], signalAborted)
    ELSE [s EXCEPT !.pc = "zipping"]

\* the loop test, the check of line 818 and the call of line 823; after the
\* last item the check of line 846 and the call of line 850
LoopHead(s, signalAborted) ==
    IF s.i <= NumItems
    THEN IF signalAborted
         THEN OuterCatch(s, Err("PlaylistCancelledIteration", <<>>, <<>>))
         ELSE StartPipeline(s, playlistItems.list[s.i], signalAborted)
    ELSE IF signalAborted
         THEN OuterCatch(s, Err("PlaylistCancelledBeforeZip", <<>>, <<>>))
         ELSE [s EXCEPT !.pc = "zipping"]

\* downloadAndConvertToMp3 throws e: to catch (itemError) or to the outer catch.
\* Its locals chosenFormat and the caught error are gone; dc keeps which
\* message it threw and the state of the streams and of ffmpeg it created.
PipelineThrows(s, e, signalAborted) ==
    LET s1 == [s EXCEPT !.dc.thrown = e.tpl,
                        !.dc.pending = NoError,
                        !.dc.format = NoFormat]
    IN  IF PlaylistBranch THEN ItemCatch(s1, e, signalAborted) ELSE OuterCatch(s1, e)

\* ytdl.chooseFormat(formats, { quality: 'highestvideo', filter })
chooseFormat(candidates) ==
    IF candidates = {} THEN NoFormat
    ELSE CHOOSE f \in candidates : \A g \in candidates : g.height <= f.height

\* lines 652-667
selectFormat(formats) ==
    LET format == chooseFormat({f \in formats :
                        f.hasAudio /\ f.hasVideo /\ f.container = "mp4"})
    IN  IF format # NoFormat THEN format
        ELSE chooseFormat({f \in formats : f.hasAudio /\ f.hasVideo})

AfterGetInfoNoLiveCheck(s, isLive, formats, signalAborted) ==
    LET s1 == [s EXCEPT !.dc.isLive = isLive]
        title == s.dc.title
        chosenFormat == selectFormat(formats)
    IN  IF chosenFormat = NoFormat
        THEN IF signalAborted
             THEN PipelineThrows(s1, Err("CancelledFormatSelection", title, <<>>), signalAborted)
             ELSE PipelineThrows(s1, Err("NoSuitableFormat", title, <<>>), signalAborted)
        ELSE [s1 EXCEPT !.dc.format = chosenFormat,
                        !.dc.videoStream = "open",
                        !.dc.fileWriteStream = "open",
                        !.dc.downloadInterval = TRUE,
                        !.files = @ \cup { <<s.i, "mp4">> },
                        !.pc = "dc_download"]

\* downloadAndConvertToMp3 after ytdl.getInfo resolved   (lines 648-728)
AfterGetInfo(s, isLive, formats, signalAborted) ==
    LET s1 == [s EXCEPT !.dc.isLive = isLive]
        title == s.dc.title
        chosenFormat == selectFormat(formats)
    IN  IF isLive
        THEN PipelineThrows(s1, Err("LiveStream", title, <<>>), signalAborted)
        ELSE IF chosenFormat = NoFormat
        THEN IF signalAborted
             THEN PipelineThrows(s1, Err("CancelledFormatSelection", title, <<>>), signalAborted)
             ELSE PipelineThrows(s1, Err("NoSuitableFormat", title, <<>>), signalAborted)
        ELSE [s1 EXCEPT !.dc.format = chosenFormat,
                        !.dc.videoStream = "open",
                        !.dc.fileWriteStream = "open",
                        !.dc.downloadInterval = TRUE,
                        !.files = @ \cup { <<s.i, "mp4">> },
                        !.pc = "dc_download"]

\* the filter of lines 654-657 lets no format through
NoPreferredFormat(formats) ==
    \A f \in formats : ~(f.hasAudio /\ f.hasVideo /\ f.container = "mp4")

\* the call of line 652 throws out of downloadAndConvertToMp3 (video not live)
AfterChooseFormatThrows(s, signalAborted) ==
    PipelineThrows([s EXCEPT !.dc.isLive = FALSE],
                   Err("NoSuchFormat", <<>>, <<>>), signalAborted)

\* downloadAndConvertToMp3 after downloadPromise resolved   (lines 730-780)
AfterDownload(s, signalAborted) ==
    IF signalAborted
    THEN PipelineThrows(s, Err("CancelledBeforeConversion", s.dc.title, <<>>), signalAborted)
    ELSE [s EXCEPT !.dc.ffmpeg = "running",
                   !.dc.conversionInterval = TRUE,
                   !.files = @ \cup { <<s.i, "mp3">> },
                   !.pc = "dc_convert"]

AfterConversionNoSignalCheck(s, rejection, signalAborted) ==
    LET pending ==
            IF rejection = NoError THEN NoError
            ELSE Err("FfmpegProcessingFailed", s.dc.title, rejection.inner)
    IN  [s EXCEPT !.dc.pending = pending, !.pc = "dc_unlinkVideo"]

\* try { await conversionPromise } catch ... finally { await fsp.unlink(tempVideoPath)
\* (lines 779-787); rejection is NoError when conversionPromise resolved
AfterConversion(s, rejection, signalAborted) ==
    LET pending ==
            IF rejection = NoError THEN NoError
            ELSE IF signalAborted
                 THEN Err("CancelledDuringFfmpeg", s.dc.title, <<>>)
                 ELSE Err("FfmpegProcessingFailed", s.dc.title, rejection.inner)
    IN  [s EXCEPT !.dc.pending = pending, !.pc = "dc_unlinkVideo"]

AfterUnlinkVideoNoPostCheck(s, signalAborted) ==
    LET s1 == [s EXCEPT !.files = @ \ { <<s.i, "mp4">> }]
    IN  IF s.dc.pending # NoError
        THEN PipelineThrows(s1, s.dc.pending, signalAborted)
        ELSE PipelineReturns(s1)

\* after the unlink of the finally block   (lines 787-795)
AfterUnlinkVideo(s, signalAborted) ==
    LET s1 == [s EXCEPT !.files = @ \ { <<s.i, "mp4">> }]
    IN  IF s.dc.pending # NoError
        THEN PipelineThrows(s1, s.dc.pending, signalAborted)
        ELSE IF signalAborted
             THEN [s1 EXCEPT !.pc = "dc_unlinkMp3"]
             ELSE PipelineReturns(s1)

(***************************************************************************)
(* The single-video branch and the response stream.                        *)
(***************************************************************************)
\* after fsp.mkdtemp resolved: line 813, then the loop or lines 860-866
AfterMkdtemp(s, urlValid, signalAborted) ==
    LET s1 == [s EXCEPT !.tempDir = "exists"]
    IN  IF PlaylistBranch
        THEN LoopHead([s1 EXCEPT !.i = 1], signalAborted)
        ELSE IF ~urlValid
             THEN Return(s1, "error", Err("InvalidUrl", <<>>, <<>>))
             ELSE [s1 EXCEPT !.pc = "s_getInfo"]

\* lines 873-882
AfterSingleGetInfo(s, isLive, title, signalAborted) ==
    LET s1 == [s EXCEPT !.videoInfoLive = isLive]
    IN  IF isLive
        THEN Return(s1, "error", Err("LiveStreamsNotSupported", <<>>, <<>>))
        ELSE IF signalAborted
             THEN OuterCatch(s1, Err("SingleCancelledBeforeProcessing", <<>>, <<>>))
             ELSE StartPipeline(s1, title, signalAborted)

\* lines 885-968: the streams, the Response and the cleanup handlers
AfterStat(s) ==
    Return([s EXCEPT !.stream = [IdleStream EXCEPT !.fileStream = "open",
                                                   !.passThrough = "flowing",
                                                   !.controller = "readable"],
                     !.headers = audioHeaders(s.dc.title)],
           "audio", NoError)

\* controller.error(e): only a readable stream changes, and it drops its queue
controllerError(st) ==
    IF st.controller = "readable"
    THEN [st EXCEPT !.controller = "errored", !.queue = 0]
    ELSE st

performCleanupAlways(s) ==
    [s EXCEPT !.stream.fileStream = "destroyed",
              !.stream.cleanupCount = @ + 1,
              !.stream.cleanedUp = TRUE,
              !.files = @ \ { <<s.i, "mp3">> }]

\* performCleanupOnce and cleanup   (lines 948-963)
performCleanupOnce(s) ==
    IF ~s.stream.cleanedUp
    THEN [s EXCEPT !.stream.fileStream = "destroyed",
                   !.stream.cleanupCount = @ + 1,
                   !.stream.cleanedUp = TRUE,
                   !.files = @ \ { <<s.i, "mp3">> }]
    ELSE s

(***************************************************************************)
(* Initial state: the call of downloadAudioAction by handleDownload        *)
(* (DownloadArea.tsx lines 70-99), which passes null for a single video.   *)
(***************************************************************************)
RequestStarted ==
    /\ aborted = FALSE
    /\ abortPc = "none"
    /\ abortReason = "none"
    /\ abortController = "set"
    /\ pc = "start"
    /\ i = 0
    /\ tempDir = "none"
    /\ files = {}
    /\ zip = <<>>
    /\ itemStatus = [k \in 1..Len(playlistItems.list) |-> "none"]
    /\ dc = IdleDc
    /\ orphanStreams = 0
    /\ videoInfoLive = FALSE
    /\ result = "none"
    /\ resultError = NoError
    /\ headers = NoHeaders
    /\ timers = 0
    /\ stream = IdleStream

NoSanitizeCall ==
    /\ saneName = <<>>
    /\ saneNameAgain = <<>>
    /\ calls = 0

Init ==
    /\ isPlaylist \in BOOLEAN
    /\ playlistItems \in PlaylistInputs
    /\ (~isPlaylist => playlistItems.null)
    /\ playlistTitle = <<>>
    /\ videoFormats = {}
    /\ isClientCancelledInitially = FALSE
    /\ area = IdleArea
    /\ analysis = NoAnalysis
    /\ RequestStarted
    /\ name = <<>>
    /\ NoSanitizeCall

\* a playlist of MaxBatchItems items, some of them with the same title
BatchTitles == { <<"a">>, <<"b", "?">> }

BatchInit ==
    /\ isPlaylist = TRUE
    /\ playlistItems \in
          { [null |-> FALSE, list |-> q] :
              q \in SeqsUpTo(BatchTitles, MaxBatchItems) \ SeqsUpTo(BatchTitles, MaxBatchItems - 1) }
    /\ playlistTitle = <<>>
    /\ videoFormats = {}
    /\ isClientCancelledInitially = FALSE
    /\ area = IdleArea
    /\ analysis = NoAnalysis
    /\ RequestStarted
    /\ name = <<>>
    /\ NoSanitizeCall

(***************************************************************************)
(* Actions.                                                                *)
(***************************************************************************)
\* handleCancelDownload   (DownloadArea.tsx lines 204-210)
Abort ==
    /\ abortController = "set"
    /\ LET signal == abort([aborted |-> aborted, reason |-> abortReason], UserCancelled)
       IN  /\ aborted' = signal.aborted
           /\ abortReason' = signal.reason
    /\ abortPc' = IF aborted THEN abortPc ELSE pc
    /\ UNCHANGED <<abortController, inputVars, serverVars, sanitizeVars>>

\* resetStates, run by the effect of lines 54-57   (DownloadArea.tsx lines 46-52)
resetStates ==
    /\ abortController = "set"
    /\ LET signal == abort([aborted |-> aborted, reason |-> abortReason], Rerendered)
       IN  /\ aborted' = signal.aborted
           /\ abortReason' = signal.reason
    /\ abortPc' = IF aborted THEN abortPc ELSE pc
    /\ abortController' = "null"
    /\ UNCHANGED <<inputVars, serverVars, sanitizeVars>>

\* line 807
MkdtempResolved ==
    /\ pc = "start"
    /\ \E urlValid \in BOOLEAN : Set(AfterMkdtemp(Cur, urlValid, aborted))

\* line 807 is outside the try block: the rejection leaves downloadAudioAction
MkdtempRejected ==
    /\ pc = "start"
    /\ \E msg \in EnvMessages :
         Set([Cur EXCEPT !.pc = "done", !.result = "threw",
                         !.resultError = Err("Raw", <<>>, msg)])

\* line 866
SingleGetInfoResolved ==
    /\ pc = "s_getInfo"
    /\ \E isLive \in BOOLEAN, title \in SingleTitles :
         Set(AfterSingleGetInfo(Cur, isLive, title, aborted))

\* lines 867-871
SingleGetInfoRejected ==
    /\ pc = "s_getInfo"
    /\ \E msg \in EnvMessages :
         Set(IF aborted
             THEN OuterCatch(Cur, Err("SingleCancelledGetInfo", <<>>, <<>>))
             ELSE Return(Cur, "error", Err("SingleGetInfoFailed", <<>>, msg)))

\* line 641
GetInfoResolved ==
    /\ pc = "dc_getInfo"
    /\ \E isLive \in BOOLEAN, formats \in SUBSET Formats :
         Set(AfterGetInfo(Cur, isLive, formats, aborted))

\* line 652: ytdl-core's chooseFormat throws "No such format found: <quality>"
\* when no format passes the filter, where lines 659-672 expect it to return
\* nothing; the library is not part of the sources, so both outcomes are kept
ChooseFormatThrows ==
    /\ pc = "dc_getInfo"
    /\ \E formats \in SUBSET Formats :
         /\ NoPreferredFormat(formats)
         /\ Set(AfterChooseFormatThrows(Cur, aborted))

\* lines 642-646
GetInfoRejected ==
    /\ pc = "dc_getInfo"
    /\ \E msg \in EnvMessages :
         Set(IF aborted
             THEN PipelineThrows(Cur, Err("CancelledDuringGetInfo", dc.title, <<>>), aborted)
             ELSE PipelineThrows(Cur, Err("GetInfoFailed", dc.title, msg), aborted))

\* the setInterval callback of lines 684-693
DownloadPollTick ==
    /\ pc = "dc_download"
    /\ dc.downloadInterval
    /\ Set(IF aborted
           THEN PipelineThrows([Cur EXCEPT !.dc.videoStream = "destroyed",
                                           !.dc.fileWriteStream = "destroyed",
                                           !.dc.downloadInterval = FALSE],
                               Err("VideoDownloadCancelled", dc.title, <<>>), aborted)
           ELSE Cur)

\* fileWriteStream 'finish'   (lines 697-704), then lines 730-780
WriteStreamFinish ==
    /\ pc = "dc_download"
    /\ LET s1 == [Cur EXCEPT !.dc.videoStream = "ended",
                             !.dc.fileWriteStream = "finished",
                             !.dc.downloadInterval = FALSE]
       IN  Set(IF aborted
               THEN PipelineThrows(s1, Err("VideoDownloadCancelled", dc.title, <<>>), aborted)
               ELSE AfterDownload(s1, aborted))

\* fileWriteStream 'error'   (lines 705-713)
WriteStreamError ==
    /\ pc = "dc_download"
    /\ \E msg \in EnvMessages :
         LET s1 == [Cur EXCEPT !.dc.fileWriteStream = "destroyed",
                               !.dc.downloadInterval = FALSE]
         IN  Set(IF aborted
                 THEN PipelineThrows(s1, Err("VideoDownloadCancelled", dc.title, <<>>), aborted)
                 ELSE PipelineThrows(s1, Err("WriteFailed", dc.title, msg), aborted))

\* videoStream 'error'   (lines 714-725)
VideoStreamError ==
    /\ pc = "dc_download"
    /\ \E msg \in EnvMessages :
         LET s1 == [Cur EXCEPT !.dc.videoStream = "destroyed",
                               !.dc.fileWriteStream = "destroyed",
                               !.dc.downloadInterval = FALSE]
         IN  Set(IF aborted \/ includes(toLowerCase(msg), CancelWord)
                 THEN PipelineThrows(s1, Err("VideoDownloadCancelled", dc.title, <<>>), aborted)
                 ELSE PipelineThrows(s1, Err("StreamFailed", dc.title, msg), aborted))

ConversionPollTickKeepsInterval ==
    /\ pc = "dc_convert"
    /\ dc.conversionInterval
    /\ Set(IF aborted
           THEN AfterConversion([Cur EXCEPT !.dc.ffmpeg = "killed",
                                            !.dc.ffmpegKilled = TRUE],
                                Err("FfmpegConversionCancelled", dc.title, <<>>), aborted)
           ELSE Cur)

\* the setInterval callback of lines 740-753, then lines 781-787
ConversionPollTick ==
    /\ pc = "dc_convert"
    /\ dc.conversionInterval
    /\ Set(IF aborted
           THEN AfterConversion([Cur EXCEPT !.dc.ffmpeg = "killed",
                                            !.dc.ffmpegKilled = TRUE,
                                            !.dc.conversionInterval = FALSE],
                                Err("FfmpegConversionCancelled", dc.title, <<>>), aborted)
           ELSE Cur)

FfmpegErrorResolves ==
    /\ pc = "dc_convert"
    /\ Set(AfterConversion([Cur EXCEPT !.dc.ffmpeg = "failed",
                                      !.dc.conversionInterval = FALSE],
                           NoError, aborted))

\* ffmpeg 'error'   (lines 756-767), then lines 781-787
FfmpegError ==
    /\ pc = "dc_convert"
    /\ \E stderr \in FfmpegStderr :
         LET s1 == [Cur EXCEPT !.dc.ffmpeg = "failed", !.dc.conversionInterval = FALSE]
             msg == ffmpegErrorMessage(stderr)
         IN  Set(IF aborted \/ dc.ffmpegKilled
                 THEN AfterConversion(s1, Err("FfmpegConversionCancelled", dc.title, <<>>),
                                      aborted)
                 ELSE AfterConversion(s1, Err("FfmpegConversionFailed", dc.title, msg),
                                      aborted))

\* ffmpeg 'end'   (lines 768-775), then lines 780-787
FfmpegEnd ==
    /\ pc = "dc_convert"
    /\ LET s1 == [Cur EXCEPT !.dc.ffmpeg = "ended", !.dc.conversionInterval = FALSE]
       IN  Set(IF aborted \/ dc.ffmpegKilled
               THEN AfterConversion(s1, Err("FfmpegConversionCancelled", dc.title, <<>>),
                                    aborted)
               ELSE AfterConversion(s1, NoError, aborted))

\* fsp.unlink(tempVideoPath) of line 787 done, then lines 790-795
UnlinkVideoDone ==
    /\ pc = "dc_unlinkVideo"
    /\ Set(AfterUnlinkVideo(Cur, aborted))

\* fsp.unlink(tempMp3Path) of line 791 done, then line 792
UnlinkCancelledMp3Done ==
    /\ pc = "dc_unlinkMp3"
    /\ Set(PipelineThrows([Cur EXCEPT !.files = @ \ { <<i, "mp3">> }],
                          Err("CancelledPostFfmpeg", dc.title, <<>>), aborted))

\* fsp.readFile(mp3Path) of line 824 resolved, then lines 825-826
ReadFileResolved ==
    /\ pc = "readFile"
    /\ Set([SetItemStatus(Cur, "ok") EXCEPT
              !.zip = zipFile(@, mp3EntryName(playlistItems.list[i]), "mp3", i, NoError),
              !.pc = "unlinkMp3"])

\* fsp.readFile(mp3Path) of line 824 rejected: to catch (itemError)
ReadFileRejected ==
    /\ pc = "readFile"
    /\ \E msg \in EnvMessages : Set(ItemCatch(Cur, Err("Raw", <<>>, msg), aborted))

\* fsp.unlink(mp3Path) of line 826 done, then the next iteration
UnlinkMp3Done ==
    /\ pc = "unlinkMp3"
    /\ Set(LoopHead([Cur EXCEPT !.files = @ \ { <<i, "mp3">> }, !.i = @ + 1], aborted))

\* zip.generateAsync of line 850 resolved, then lines 852-857
ZipGenerated ==
    /\ pc = "zipping"
    /\ Set(Return([Cur EXCEPT !.headers = zipHeaders(playlistTitle)], "zip", NoError))

\* fsp.stat(mp3Path) of line 884 resolved
StatResolved ==
    /\ pc = "stat"
    /\ Set(AfterStat(Cur))

\* fsp.stat(mp3Path) of line 884 rejected: to the outer catch
StatRejected ==
    /\ pc = "stat"
    /\ \E msg \in EnvMessages : Set(OuterCatch(Cur, Err("Raw", <<>>, msg)))

\* passThrough 'data'   (lines 905-915)
PassThroughData ==
    /\ result = "audio"
    /\ stream.passThrough = "flowing"
    /\ stream.fileStream = "open"
    /\ stream.fed < NChunks
    /\ Set(IF aborted
           THEN [Cur EXCEPT !.stream = [controllerError(@) EXCEPT
                                          !.passThrough = "destroyed",
                                          !.passThroughError = TRUE,
                                          !.fileStream = "destroyed"]]
           ELSE [Cur EXCEPT !.stream.queue = @ + 1, !.stream.fed = @ + 1])

PassThroughEndAlwaysCloses ==
    /\ result = "audio"
    /\ stream.passThrough = "flowing"
    /\ stream.fed = NChunks
    /\ Set([Cur EXCEPT !.stream.passThrough = "ended", !.stream.controller = "closed"])

\* passThrough 'end'   (lines 916-924)
PassThroughEnd ==
    /\ result = "audio"
    /\ stream.passThrough = "flowing"
    /\ stream.fed = NChunks
    /\ Set(IF aborted
           THEN [Cur EXCEPT !.stream = [controllerError(@) EXCEPT !.passThrough = "ended"]]
           ELSE [Cur EXCEPT !.stream.passThrough = "ended", !.stream.controller = "closed"])

\* passThrough 'error': the handler of lines 925-933, then performCleanupOnce (965)
PassThroughErrorEvent ==
    /\ result = "audio"
    /\ stream.passThrough = "destroyed"
    /\ stream.passThroughError
    /\ stream.events < MaxPtEvents
    /\ Set(performCleanupOnce([Cur EXCEPT !.stream = [controllerError(@) EXCEPT
                                                        !.events = @ + 1]]))

\* passThrough 'close': performCleanupOnce (964)
PassThroughCloseEvent ==
    /\ result = "audio"
    /\ stream.passThrough \in {"ended", "destroyed"}
    /\ stream.events < MaxPtEvents
    /\ Set(performCleanupOnce([Cur EXCEPT !.stream.events = @ + 1]))

\* fileStream 'error'   (lines 890-895)
FileStreamError ==
    /\ result = "audio"
    /\ stream.fileStream = "open"
    /\ Set(IF stream.passThrough # "destroyed"
           THEN [Cur EXCEPT !.stream.fileStream = "destroyed",
                            !.stream.passThrough = "destroyed",
                            !.stream.passThroughError = TRUE]
           ELSE [Cur EXCEPT !.stream.fileStream = "destroyed"])

\* the consumer of the Response takes one chunk from the ReadableStream
ConsumerRead ==
    /\ result = "audio"
    /\ stream.controller \in {"readable", "closed"}
    /\ stream.queue > 0
    /\ Set([Cur EXCEPT !.stream.queue = @ - 1, !.stream.read = @ + 1])

\* the consumer cancels the ReadableStream: cancel(reason)   (lines 935-943)
ConsumerCancel ==
    /\ result = "audio"
    /\ stream.controller = "readable"
    /\ Set([Cur EXCEPT
              !.stream.controller = "cancelled",
              !.stream.queue = 0,
              !.stream.passThroughError = (@ \/ stream.passThrough # "destroyed"),
              !.stream.passThrough = "destroyed",
              !.stream.fileStream = "destroyed"])

\* the callback of the setTimeout of lines 996-998: fsp.rm(tempDir, recursive, force)
TimerFires ==
    /\ pc = "done"
    /\ timers > 0
    /\ tempDir = "exists"
    /\ Set([Cur EXCEPT !.tempDir = "removed", !.files = {}])

Next ==
    \/ Abort
    \/ MkdtempResolved
    \/ MkdtempRejected
    \/ SingleGetInfoResolved
    \/ SingleGetInfoRejected
    \/ GetInfoResolved
    \/ ChooseFormatThrows
    \/ GetInfoRejected
    \/ DownloadPollTick
    \/ WriteStreamFinish
    \/ WriteStreamError
    \/ VideoStreamError
    \/ ConversionPollTick
    \/ FfmpegError
    \/ FfmpegEnd
    \/ UnlinkVideoDone
    \/ UnlinkCancelledMp3Done
    \/ ReadFileResolved
    \/ ReadFileRejected
    \/ UnlinkMp3Done
    \/ ZipGenerated
    \/ StatResolved
    \/ StatRejected
    \/ PassThroughData
    \/ PassThroughEnd
    \/ PassThroughErrorEvent
    \/ PassThroughCloseEvent
    \/ FileStreamError
    \/ ConsumerRead
    \/ ConsumerCancel
    \/ TimerFires

Spec == Init /\ [][Next]_vars

\* the event loop runs a timer that is due
LiveSpec == Spec /\ WF_vars(TimerFires)

\* the steps of a playlist request   (lines 807-857, 970-999)
BatchNext ==
    \/ Abort
    \/ MkdtempResolved
    \/ MkdtempRejected
    \/ GetInfoResolved
    \/ ChooseFormatThrows
    \/ GetInfoRejected
    \/ DownloadPollTick
    \/ WriteStreamFinish
    \/ WriteStreamError
    \/ VideoStreamError
    \/ ConversionPollTick
    \/ FfmpegError
    \/ FfmpegEnd
    \/ UnlinkVideoDone
    \/ UnlinkCancelledMp3Done
    \/ ReadFileResolved
    \/ ReadFileRejected
    \/ UnlinkMp3Done
    \/ ZipGenerated
    \/ TimerFires

BatchSpec == BatchInit /\ [][BatchNext]_vars

(***************************************************************************)
(* sanitizeFilename on its own: a call on any name, then a call on what    *)
(* the first call returned.                                                *)
(***************************************************************************)
SanitizeInit ==
    /\ isPlaylist = FALSE
    /\ playlistItems = [null |-> TRUE, list |-> <<>>]
    /\ playlistTitle = <<>>
    /\ videoFormats = {}
    /\ isClientCancelledInitially = FALSE
    /\ area = IdleArea
    /\ analysis = NoAnalysis
    /\ RequestStarted
    /\ name \in NameInputs
    /\ NoSanitizeCall

SanitizeCall ==
    /\ calls = 0
    /\ saneName' = sanitizeFilename(name)
    /\ calls' = 1
    /\ UNCHANGED <<inputVars, signalVars, serverVars, name, saneNameAgain>>

SanitizeAgain ==
    /\ calls = 1
    /\ saneNameAgain' = sanitizeFilename(saneName)
    /\ calls' = 2
    /\ UNCHANGED <<inputVars, signalVars, serverVars, name, saneName>>

SanitizeNext ==
    \/ SanitizeCall
    \/ SanitizeAgain

SanitizeSpec == SanitizeInit /\ [][SanitizeNext]_vars

\* the request together with the component's effect that runs resetStates
ClientNext ==
    \/ Next
    \/ resetStates

ClientSpec == Init /\ [][ClientNext]_vars

(***************************************************************************)
(* Vocabulary of the properties.                                           *)
(***************************************************************************)
Items == 1..NumItems

\* the workspace was created and downloadAudioAction has returned
Returned == pc = "done" /\ tempDir # "none"

EntriesOf(k) == {j \in 1..Len(zip) : zip[j].item = k}

DistinctSanitizedTitles ==
    \A k, m \in Items :
        k # m => sanitizeFilename(playlistItems.list[k]) # sanitizeFilename(playlistItems.list[m])

\* the ytdl streams that are open, and the ffmpeg processes that are running
OpenDownloadStreams == orphanStreams + (IF dc.videoStream = "open" THEN 1 ELSE 0)

RunningFfmpeg == IF dc.ffmpeg = "running" THEN 1 ELSE 0

\* the consumer of the audio response has not yet seen the end of the body
ConsumerReading ==
    /\ result = "audio"
    /\ \/ stream.controller = "readable"
       \/ stream.controller = "closed" /\ stream.queue > 0

(***************************************************************************)
(* C1: in a playlist request whose token is never aborted, no item failure *)
(* aborts the batch: when the request has returned, every item has been    *)
(* processed (succeeded or recorded with a marker) and the result is the   *)
(* ZIP response, not an error.                                             *)
(***************************************************************************)
C1_ItemFailureNeverAbortsBatch ==
    (PlaylistBranch /\ Returned /\ ~aborted) =>
        /\ result = "zip"
        /\ \A k \in Items : itemStatus[k] \in {"ok", "failed", "cancelled"}

C1_Witness ==
    /\ PlaylistBranch /\ Returned /\ ~aborted
    /\ NumItems = 2
    /\ itemStatus[1] = "failed"
    /\ itemStatus[2] = "ok"
    /\ result = "zip"

(***************************************************************************)
(* C2: for a playlist of N items with pairwise distinct sanitized titles   *)
(* that ends with the ZIP response, the archive has exactly N entries: one *)
(* audio entry for each item that succeeded and one marker entry for each  *)
(* item that failed.                                                       *)
(***************************************************************************)
C2_OneEntryPerItem ==
    (PlaylistBranch /\ result = "zip" /\ DistinctSanitizedTitles) =>
        /\ Len(zip) = NumItems
        /\ \A k \in Items :
             /\ Cardinality(EntriesOf(k)) = 1
             /\ \A j \in EntriesOf(k) :
                  /\ itemStatus[k] = "ok" <=> zip[j].kind = "mp3"
                  /\ itemStatus[k] \in {"failed", "cancelled"}
                        <=> zip[j].kind \in {"ERROR", "CANCELLED"}

C2_Witness ==
    /\ PlaylistBranch /\ result = "zip" /\ DistinctSanitizedTitles
    /\ NumItems = 2
    /\ itemStatus[1] = "ok"
    /\ itemStatus[2] = "failed"
    /\ Len(zip) = 2
    /\ zip[1].kind = "mp3"
    /\ zip[2].kind = "ERROR"

(***************************************************************************)
(* C3 (as claimed): every playlist item that succeeded has its own audio   *)
(* entry in the archive that is returned, also when two items have the     *)
(* same sanitized title.                                                   *)
(***************************************************************************)
C3_EverySucceededItemHasEntry ==
    (PlaylistBranch /\ result = "zip") =>
        \A k \in Items :
            itemStatus[k] = "ok" =>
                \E j \in EntriesOf(k) : zip[j].kind = "mp3"

(***************************************************************************)
(* C4: once the token is aborted, no item that has not been started is     *)
(* started (downloadAndConvertToMp3 is not called for it), and the archive *)
(* gets no entry, audio or marker, for such an item.                       *)
(***************************************************************************)
C4_NoStartAfterAbort ==
    [][aborted =>
         \A k \in Items :
            itemStatus[k] = "none" =>
                /\ itemStatus'[k] = "none"
                /\ \A j \in 1..Len(zip') : zip'[j].item # k]_vars

C4_Witness ==
    /\ PlaylistBranch /\ Returned /\ aborted
    /\ NumItems = 2
    /\ itemStatus[1] = "cancelled"
    /\ itemStatus[2] = "none"
    /\ Len(zip) = 1
    /\ result = "cancelled"

(***************************************************************************)
(* C5: if the token is aborted at any point of a playlist request before   *)
(* zip.generateAsync is called (the check of line 846 included), the       *)
(* request returns the cancellation error and not the ZIP response.        *)
(***************************************************************************)
C5_AbortBeforeZipGivesCancellation ==
    (PlaylistBranch /\ Returned /\ aborted /\ abortPc \notin {"zipping", "done"}) =>
        result = "cancelled"

C5_Witness ==
    /\ PlaylistBranch /\ Returned /\ aborted
    /\ abortPc = "unlinkMp3"
    /\ \A k \in Items : itemStatus[k] = "ok"
    /\ result = "cancelled"

(***************************************************************************)
(* C6 (as claimed): a request is reported as cancelled (the 'Operation     *)
(* cancelled: ...' error, or a CANCELLED_ marker in the archive) only when *)
(* the token was aborted.                                                  *)
(***************************************************************************)
C6_CancelledOnlyIfAborted ==
    (\/ result = "cancelled"
     \/ \E j \in 1..Len(zip) : zip[j].kind = "CANCELLED") => aborted

C8_NoRemovalWhileReading ==
    ~(tempDir = "removed" /\ ConsumerReading)

(***************************************************************************)
(* C9: the cleanup body runs at most once whatever 'close' and 'error'     *)
(* events the pass-through stream emits, and the workspace removal is      *)
(* scheduled exactly once when downloadAudioAction leaves its try block,   *)
(* and not before.                                                         *)
(***************************************************************************)
C9_CleanupSingleFire ==
    /\ stream.cleanupCount <= 1
    /\ Returned => timers = 1
    /\ pc # "done" => timers = 0

C9_Witness ==
    /\ Returned
    /\ result = "audio"
    /\ stream.events = 2
    /\ stream.cleanupCount = 1
    /\ timers = 1

(***************************************************************************)
(* C10: when the resolver reports live content, the item fails with the    *)
(* live-stream error and neither the download stream nor ffmpeg is started *)
(* for it: in downloadAndConvertToMp3 (line 648) and in the single-video   *)
(* branch (line 873), which returns before calling it.                     *)
(***************************************************************************)
C10_LiveNeverDownloaded ==
    /\ dc.isLive =>
         /\ dc.thrown = "LiveStream"
         /\ dc.videoStream = "none"
         /\ dc.fileWriteStream = "none"
         /\ dc.ffmpeg = "none"
    /\ videoInfoLive =>
         /\ result = "error"
         /\ resultError.tpl = "LiveStreamsNotSupported"
         /\ dc = IdleDc

C10_Witness ==
    /\ PlaylistBranch
    /\ dc.isLive
    /\ itemStatus[1] = "failed"
    /\ zip[1].kind = "ERROR"

(***************************************************************************)
(* C11 (as claimed): downloadAudioAction never lets an exception escape to *)
(* its caller: whatever step fails, workspace creation included, it        *)
(* returns a Response or a structured { error }, with the workspace        *)
(* cleanup scheduled.                                                      *)
(***************************************************************************)
C11_NeverThrows ==
    pc = "done" =>
        /\ result \in {"zip", "audio", "error", "cancelled"}
        /\ timers = 1

(***************************************************************************)
(* C12 (as claimed): when a single-video request is rejected for its       *)
(* invalid URL, no temp workspace directory has been created and the       *)
(* resolver (ytdl.getInfo) has not been called.                            *)
(***************************************************************************)
C12_InvalidUrlAllocatesNothing ==
    (result = "error" /\ resultError.tpl = "InvalidUrl") =>
        /\ tempDir = "none"
        /\ dc = IdleDc
        /\ ~videoInfoLive

(***************************************************************************)
(* C13 (as claimed): a request with isPlaylist = true whose item list is   *)
(* null or empty is rejected as an input error: no download or transcode   *)
(* of any video is started and neither the audio nor the ZIP response is   *)
(* returned.                                                               *)
(***************************************************************************)
C13_EmptyPlaylistRejected ==
    (isPlaylist /\ (playlistItems.null \/ Len(playlistItems.list) = 0)) =>
        /\ dc.videoStream = "none"
        /\ dc.fileWriteStream = "none"
        /\ dc.ffmpeg = "none"
        /\ result \notin {"audio", "zip"}

C15_OneItemAtATime ==
    PlaylistBranch =>
        /\ OpenDownloadStreams <= 1
        /\ RunningFfmpeg <= 1
        /\ \A k \in Items :
             (k < i) => itemStatus[k] \in {"ok", "failed", "cancelled"}
        /\ \A k \in Items :
             (k > i) => itemStatus[k] = "none"

(***************************************************************************)
(* C16 (as claimed): the archive preserves input order: of two entries of  *)
(* the archive, the one that comes first is the entry of the earlier       *)
(* playlist item.                                                          *)
(***************************************************************************)
C16_ArchivePreservesOrder ==
    \A j1, j2 \in 1..Len(zip) :
        j1 < j2 => zip[j1].item < zip[j2].item

(***************************************************************************)
(* C17 (as claimed): the response of a successful single-video request     *)
(* with title T has Content-Type audio/mpeg and a Content-Disposition      *)
(* whose filename is sanitizeFilename(T) followed by '.mp3'.               *)
(***************************************************************************)
C17_AudioResponseHeaders ==
    result = "audio" =>
        /\ headers.contentType = "audio/mpeg"
        /\ headers.filename = sanitizeFilename(dc.title) \o ExtMp3

(***************************************************************************)
(* C18 (as claimed): for every playlist item that was processed            *)
(* successfully the archive has an entry named sanitizeFilename(title)     *)
(* followed by '.mp3' that holds the audio of that item, and once the loop *)
(* has moved past the item its temp audio file is no longer in the         *)
(* workspace.                                                              *)
(***************************************************************************)
C18_SucceededItemArchived ==
    PlaylistBranch =>
        \A k \in Items :
            itemStatus[k] = "ok" =>
                /\ \E j \in 1..Len(zip) :
                     /\ zip[j].name = mp3EntryName(playlistItems.list[k])
                     /\ zip[j].kind = "mp3"
                     /\ zip[j].item = k
                /\ (i > k) => <<k, "mp3">> \notin files

(***************************************************************************)
(* C19: sanitizeFilename is idempotent: sanitizing a name that             *)
(* sanitizeFilename returned gives that name again, for every input: names *)
(* longer than 100 characters, names ending in '.', whitespace-only names, *)
(* the empty name and the bare extensions '.mp3' and '.zip' included.      *)
(***************************************************************************)
C19_SanitizeIdempotent ==
    calls = 2 => saneNameAgain = saneName

C19_Witness ==
    /\ calls = 2
    /\ Len(name) > MaxNameLength
    /\ endsWith(name, <<".", " ">>)
    /\ Len(saneName) < MaxNameLength
    /\ endsWith(saneName, <<"_">>)
    /\ saneNameAgain = saneName

(***************************************************************************)
(* C20: every character of a name returned by sanitizeFilename is a letter *)
(* A-Z or a-z, a digit, '_', '.', '-' or the space character: no tab, no   *)
(* newline, no other symbol.                                               *)
(***************************************************************************)
C20_SanitizedCharacters ==
    calls >= 1 =>
        \A k \in 1..Len(saneName) :
            saneName[k] \in LowerLetters \cup UpperLetters \cup Digits \cup {"_", ".", "-", " "}

C20_Witness ==
    /\ calls >= 1
    /\ name = <<"?", "\t", "Z">>
    /\ saneName = <<"_", " ", "Z">>

(***************************************************************************)
(* C21: a name returned by sanitizeFilename has at least 1 and at most 100 *)
(* characters, for every input: the fallback name substituted for an empty *)
(* result or for a bare extension included.                                *)
(***************************************************************************)
C21_SanitizedLength ==
    calls >= 1 => Len(saneName) >= 1 /\ Len(saneName) <= MaxNameLength

\* the bare extension '.mp3' gets the fallback name in front of it
C21_Witness ==
    /\ calls >= 1
    /\ name = ExtMp3
    /\ saneName = FallbackPrefix \o ExtMp3
    /\ Len(saneName) = 19

(***************************************************************************)
(* C22: a name returned by sanitizeFilename never ends with '.', also when *)
(* the final '.' only appears once the name is truncated to 100 characters *)
(* and trimmed.                                                            *)
(***************************************************************************)
C22_NoTrailingDot ==
    calls >= 1 => ~endsWith(saneName, <<".">>)

\* the 100th character of a longer name is '.', the name itself ends otherwise
C22_Witness ==
    /\ calls >= 1
    /\ Len(name) > MaxNameLength
    /\ ~endsWith(name, <<".">>)
    /\ name[MaxNameLength] = "."
    /\ Len(saneName) = MaxNameLength
    /\ endsWith(saneName, <<"_">>)

(***************************************************************************)
(* C23: what ffmpeg wrote to stderr never reaches the caller: neither the  *)
(* message of a returned { error } nor the content of an ERROR_ marker of  *)
(* the archive contains it, so that two runs that differ only in the       *)
(* stderr text return the same to the caller; the text is only logged.     *)
(***************************************************************************)
ContainsStderr(e) ==
    \E stderr \in FfmpegStderr : includes(e.inner, stderr)

C23_StderrNeverReachesCaller ==
    /\ result = "error" => ~ContainsStderr(resultError)
    /\ result = "zip" => \A j \in 1..Len(zip) : ~ContainsStderr(zip[j].content)

(***************************************************************************)
(* C24: for every playlist item that failed for a reason other than a      *)
(* cancellation the archive has an entry ERROR_<sanitized title>.txt of    *)
(* that item whose content is the item's failure reason, and it has no     *)
(* audio entry of that item.                                               *)
(***************************************************************************)
C24_FailedItemHasErrorMarker ==
    PlaylistBranch =>
        \A k \in Items :
            itemStatus[k] = "failed" =>
                /\ \E j \in 1..Len(zip) :
                     /\ zip[j].name = errorEntryName(playlistItems.list[k])
                     /\ zip[j].kind = "ERROR"
                     /\ zip[j].item = k
                     /\ zip[j].content # NoError
                     /\ zip[j].content.tpl \notin CancelTemplates
                     /\ (k = NumItems /\ dc.thrown # "None") =>
                            zip[j].content.tpl = dc.thrown
                /\ \A j \in 1..Len(zip) : zip[j].item = k => zip[j].kind # "mp3"

(***************************************************************************)
(* C25 as stated: when the token becomes aborted while ffmpeg converts an  *)
(* item, SIGTERM is sent to ffmpeg and the item ends as a cancellation     *)
(* (not as a transcode failure), whichever of the poll tick, the 'error'   *)
(* event and the 'end' event of ffmpeg comes first.                        *)
(***************************************************************************)
AbortedWhileConverting == aborted /\ abortPc = "dc_convert"

ConversionEndedAsCancellation ==
    /\ pc = "dc_unlinkVideo" => dc.pending.tpl = "CancelledDuringFfmpeg"
    /\ pc = "done" => dc.thrown = "CancelledDuringFfmpeg" /\ result = "cancelled"
    /\ pc \in {"dc_unlinkVideo", "done"}

C25_AbortWhileConvertingSendsSigterm ==
    (AbortedWhileConverting /\ pc # "dc_convert") =>
        dc.ffmpegKilled /\ ConversionEndedAsCancellation

(***************************************************************************)
(* C25 amended: when the token becomes aborted while ffmpeg converts an    *)
(* item, the item ends as a cancellation (not as a transcode failure),     *)
(* whichever of the poll tick, the 'error' event and the 'end' event comes *)
(* first; SIGTERM is sent when the poll tick is first, and not when ffmpeg *)
(* has already ended by itself with 'error' or 'end'.                      *)
(***************************************************************************)
C25_AbortWhileConvertingCancels ==
    (AbortedWhileConverting /\ pc # "dc_convert") =>
        /\ ConversionEndedAsCancellation
        /\ dc.ffmpegKilled <=> dc.ffmpeg = "killed"
        /\ dc.ffmpeg \in {"killed", "failed", "ended"}

\* ffmpeg emitted 'end' after the abort and before the next poll tick
C25_Witness ==
    /\ AbortedWhileConverting
    /\ pc = "done"
    /\ dc.ffmpeg = "ended"
    /\ ~dc.ffmpegKilled
    /\ dc.thrown = "CancelledDuringFfmpeg"
    /\ result = "cancelled"

(***************************************************************************)
(* C26: downloadAndConvertToMp3 returns an audio path only if ffmpeg ended *)
(* with 'end' and without 'error'; when ffmpeg exits with an error the     *)
(* item fails even though a partial file may exist at the destination      *)
(* path, and that file is neither read into the archive nor streamed.      *)
(***************************************************************************)
AddsAudioEntry ==
    \E j \in 1..Len(zip') :
        zip'[j].kind = "mp3" /\ (j > Len(zip) \/ zip[j] # zip'[j])

C26_AudioOnlyAfterFfmpegEnd ==
    [][ /\ pc' \in {"readFile", "stat"} => dc'.ffmpeg = "ended" /\ dc'.thrown = "None"
        /\ AddsAudioEntry => pc = "readFile" /\ dc.ffmpeg = "ended"
        /\ (result' = "audio" /\ result # "audio") => pc = "stat" /\ dc.ffmpeg = "ended"
        /\ (pc = "dc_unlinkVideo" /\ dc.ffmpeg \in {"failed", "killed"}) =>
              /\ dc.pending # NoError
              /\ pc' \notin {"readFile", "stat"}
              /\ ~AddsAudioEntry ]_vars

\* ffmpeg failed on the last item and left a partial file: the item has the
\* ERROR_ marker and no audio entry
C26_Witness ==
    /\ PlaylistBranch
    /\ pc = "zipping"
    /\ dc.ffmpeg = "failed"
    /\ dc.thrown = "FfmpegProcessingFailed"
    /\ <<NumItems, "mp3">> \in files
    /\ itemStatus[NumItems] = "failed"
    /\ \A j \in 1..Len(zip) : zip[j].item = NumItems => zip[j].kind = "ERROR"

(***************************************************************************)
(* C27: when the token becomes aborted while the source media of an item   *)
(* is downloaded, neither the source stream nor the file write stream      *)
(* stays open (each is destroyed, unless it had already ended), the item   *)
(* fails as cancelled, and ffmpeg is never started for the item.           *)
(***************************************************************************)
AbortedWhileDownloading == aborted /\ abortPc = "dc_download"

C27_AbortWhileDownloadingDestroysStreams ==
    (AbortedWhileDownloading /\ pc # "dc_download") =>
        /\ dc.videoStream \in {"destroyed", "ended"}
        /\ dc.fileWriteStream \in {"destroyed", "finished"}
        /\ dc.thrown = "VideoDownloadCancelled"
        /\ result = "cancelled"
        /\ dc.ffmpeg = "none"

(***************************************************************************)
(* C28 as stated: downloadAndConvertToMp3 never returns an audio path when *)
(* the token was aborted between its call and its return; in every order   *)
(* of the abort and the completions of the resolver, the streams, ffmpeg   *)
(* and the poll ticks the call ends by throwing a cancellation error.      *)
(***************************************************************************)
PipelinePcs ==
    {"dc_getInfo", "dc_download", "dc_convert", "dc_unlinkVideo", "dc_unlinkMp3"}

AbortedDuringPipeline == aborted /\ abortPc \in PipelinePcs

C28_AbortedCallThrowsCancellation ==
    (AbortedDuringPipeline /\ pc \notin PipelinePcs) =>
        dc.thrown \in CancelTemplates

(***************************************************************************)
(* C28 amended: downloadAndConvertToMp3 never returns an audio path when   *)
(* the token was aborted between its call and its return: in every order   *)
(* the call ends by throwing, and what it throws is a cancellation error,  *)
(* with three exceptions: the live-stream error when the abort arrived     *)
(* during the resolver call and the resolver reports live content, the     *)
(* error ytdl.chooseFormat throws when the abort arrived during the        *)
(* resolver call, and the transcode failure when ffmpeg had failed before  *)
(* the abort arrived during the removal of the temporary video file.       *)
(***************************************************************************)
C28_AbortedCallNeverReturnsPath ==
    (AbortedDuringPipeline /\ pc \notin PipelinePcs) =>
        /\ dc.thrown \in CancelTemplates
                         \cup {"LiveStream", "NoSuchFormat", "FfmpegProcessingFailed"}
        /\ dc.thrown = "LiveStream" => dc.isLive /\ abortPc = "dc_getInfo"
        /\ dc.thrown = "NoSuchFormat" => abortPc = "dc_getInfo"
        /\ dc.thrown = "FfmpegProcessingFailed" =>
              dc.ffmpeg = "failed" /\ abortPc = "dc_unlinkVideo"
        /\ pc = "done"
        /\ result \in {"cancelled", "error"}
        /\ stream = IdleStream

\* the abort arrives during the last await of the call, the unlink of the
\* finally block, after ffmpeg ended
C28_Witness ==
    /\ aborted
    /\ abortPc = "dc_unlinkVideo"
    /\ pc = "done"
    /\ dc.ffmpeg = "ended"
    /\ dc.thrown = "CancelledPostFfmpeg"
    /\ result = "cancelled"

(***************************************************************************)
(* C29: in the batch loop, when the failure of an item is classified as a  *)
(* cancellation the iteration stops at that item: no later item is passed  *)
(* to downloadAndConvertToMp3.                                             *)
(***************************************************************************)
C29_CancellationStopsIteration ==
    PlaylistBranch =>
        \A k \in Items :
            itemStatus[k] = "cancelled" =>
                \A m \in Items : m > k => itemStatus[m] = "none"

(***************************************************************************)
(* C30: the token is observed before an audio entry is appended to the     *)
(* archive: once the token is aborted no audio entry is added, not even    *)
(* for the item whose conversion had just completed when the abort came.   *)
(***************************************************************************)
C30_NoAudioEntryAfterAbort ==
    [][aborted => ~AddsAudioEntry]_vars

(***************************************************************************)
(* C31: while a single-video response is streamed the token is checked on  *)
(* every chunk: once the token is aborted no further chunk is enqueued to  *)
(* the response stream, and the stream does not close normally but ends in *)
(* the errored state, also when the abort arrives just before 'end'.       *)
(***************************************************************************)
C31_NoChunkAfterAbort ==
    [][ (aborted /\ result = "audio") =>
          /\ stream'.fed = stream.fed
          /\ stream'.queue <= stream.queue
          /\ stream'.controller = "closed" => stream.controller = "closed"
          /\ (stream.controller = "readable" /\ stream.passThrough = "flowing"
                 /\ stream'.passThrough = "ended") => stream'.controller = "errored" ]_vars

\* every chunk was enqueued, then the abort arrived, then 'end'
C31_Witness ==
    /\ result = "audio"
    /\ aborted
    /\ stream.fed = NChunks
    /\ stream.passThrough = "ended"
    /\ stream.controller = "errored"

(***************************************************************************)
(* The earlier downloadAudioAction without a cancellation signal           *)
(* (src/unnamed/part_005), for a playlist request: downloadAndConvertToMp3 *)
(* has no polling interval and unlinks the downloaded video only after a   *)
(* successful conversion; the item catch always writes an ERROR_ marker;   *)
(* the finally block removes the workspace at once.                        *)
(***************************************************************************)
RECURSIVE LegacyLoopHead(_)

\* catch (itemError), then the next iteration   (part_005 lines 208-212)
LegacyItemCatch(s, e) ==
    LegacyLoopHead([SetItemStatus(s, "failed") EXCEPT
                      !.zip = zipFile(@, errorEntryName(playlistItems.list[s.i]),
                                      "ERROR", s.i, e),
                      !.i = @ + 1])

\* downloadAndConvertToMp3 throws e
LegacyPipelineThrows(s, e) ==
    LegacyItemCatch([s EXCEPT !.dc.thrown = e.tpl, !.dc.format = NoFormat], e)

\* the loop test and the call of line 204; after the last item line 214
LegacyLoopHead(s) ==
    IF s.i <= NumItems
    THEN StartPipeline(s, playlistItems.list[s.i], FALSE)
    ELSE [s EXCEPT !.pc = "zipping"]

LegacyInit ==
    /\ isPlaylist = TRUE
    /\ playlistItems \in { p \in PlaylistInputs : ~p.null /\ p.list # <<>> }
    /\ playlistTitle = <<>>
    /\ videoFormats = {}
    /\ isClientCancelledInitially = FALSE
    /\ area = IdleArea
    /\ analysis = NoAnalysis
    /\ RequestStarted
    /\ name = <<>>
    /\ NoSanitizeCall

\* fsp.mkdtemp of line 193 resolved
LegacyMkdtempResolved ==
    /\ pc = "start"
    /\ Set(LegacyLoopHead([Cur EXCEPT !.tempDir = "exists", !.i = 1]))

\* ytdl.getInfo resolved   (lines 110-143)
LegacyGetInfoResolved ==
    /\ pc = "dc_getInfo"
    /\ \E isLive \in BOOLEAN, formats \in SUBSET Formats :
         LET s1 == [Cur EXCEPT !.dc.isLive = isLive]
             chosenFormat == selectFormat(formats)
         IN  Set(IF isLive
                 THEN LegacyPipelineThrows(s1, Err("LiveStream", dc.title, <<>>))
                 ELSE IF chosenFormat = NoFormat
                 THEN LegacyPipelineThrows(s1, Err("NoSuitableFormat", dc.title, <<>>))
                 ELSE [s1 EXCEPT !.dc.format = chosenFormat,
                                 !.dc.videoStream = "open",
                                 !.dc.fileWriteStream = "open",
                                 !.files = @ \cup { <<i, "mp4">> },
                                 !.pc = "dc_download"])

\* ytdl.chooseFormat throws at line 114
LegacyChooseFormatThrows ==
    /\ pc = "dc_getInfo"
    /\ \E formats \in SUBSET Formats :
         /\ NoPreferredFormat(formats)
         /\ Set(LegacyPipelineThrows([Cur EXCEPT !.dc.isLive = FALSE],
                                     Err("NoSuchFormat", <<>>, <<>>)))

\* ytdl.getInfo rejected   (lines 105-108)
LegacyGetInfoRejected ==
    /\ pc = "dc_getInfo"
    /\ \E msg \in EnvMessages :
         Set(LegacyPipelineThrows(Cur, Err("GetInfoFailed", dc.title, msg)))

\* fileWriteStream 'finish' (line 146), then ffmpeg is started (160-176)
LegacyWriteStreamFinish ==
    /\ pc = "dc_download"
    /\ Set([Cur EXCEPT !.dc.videoStream = "ended",
                       !.dc.fileWriteStream = "finished",
                       !.dc.ffmpeg = "running",
                       !.files = @ \cup { <<i, "mp3">> },
                       !.pc = "dc_convert"])

\* fileWriteStream 'error'   (lines 147-150)
LegacyWriteStreamError ==
    /\ pc = "dc_download"
    /\ \E msg \in EnvMessages :
         Set(LegacyPipelineThrows([Cur EXCEPT !.dc.fileWriteStream = "destroyed"],
                                  Err("WriteFailed", dc.title, msg)))

\* videoStream 'error'   (lines 151-157)
LegacyVideoStreamError ==
    /\ pc = "dc_download"
    /\ \E msg \in EnvMessages :
         Set(LegacyPipelineThrows([Cur EXCEPT !.dc.videoStream = "destroyed",
                                             !.dc.fileWriteStream = "destroyed"],
                                  Err("StreamFailed", dc.title, msg)))

\* ffmpeg 'error' (lines 168-173): the catch of line 177 rethrows and line
\* 181 is not reached
LegacyFfmpegError ==
    /\ pc = "dc_convert"
    /\ \E stderr \in FfmpegStderr :
         Set(LegacyPipelineThrows([Cur EXCEPT !.dc.ffmpeg = "failed"],
                                  Err("FfmpegConversionFailed", dc.title,
                                      ffmpegErrorMessage(stderr))))

\* ffmpeg 'end' (line 174), then the unlink of line 181 is awaited
LegacyFfmpegEnd ==
    /\ pc = "dc_convert"
    /\ Set([Cur EXCEPT !.dc.ffmpeg = "ended", !.pc = "dc_unlinkVideo"])

\* fsp.unlink(tempVideoPath) of line 181 done, then line 182
LegacyUnlinkVideoDone ==
    /\ pc = "dc_unlinkVideo"
    /\ Set(PipelineReturns([Cur EXCEPT !.files = @ \ { <<i, "mp4">> }]))

\* fsp.readFile of line 205 resolved, then lines 206-207
LegacyReadFileResolved ==
    /\ pc = "readFile"
    /\ Set([SetItemStatus(Cur, "ok") EXCEPT
              !.zip = zipFile(@, mp3EntryName(playlistItems.list[i]), "mp3", i, NoError),
              !.pc = "unlinkMp3"])

\* fsp.readFile rejected: to catch (itemError)
LegacyReadFileRejected ==
    /\ pc = "readFile"
    /\ \E msg \in EnvMessages : Set(LegacyItemCatch(Cur, Err("Raw", <<>>, msg)))

\* fsp.unlink(mp3Path) of line 207 done, then the next iteration
LegacyUnlinkMp3Done ==
    /\ pc = "unlinkMp3"
    /\ Set(LegacyLoopHead([Cur EXCEPT !.files = @ \ { <<i, "mp3">> }, !.i = @ + 1]))

\* zip.generateAsync resolved, the Response is returned through the finally
\* block, which awaits fsp.rm(tempDir)   (lines 214-221 and 296-300)
LegacyZipGenerated ==
    /\ pc = "zipping"
    /\ Set([Cur EXCEPT !.headers = zipHeaders(playlistTitle),
                       !.result = "zip",
                       !.tempDir = "removed",
                       !.files = {},
                       !.pc = "done"])

LegacyNext ==
    \/ LegacyMkdtempResolved
    \/ LegacyGetInfoResolved
    \/ LegacyChooseFormatThrows
    \/ LegacyGetInfoRejected
    \/ LegacyWriteStreamFinish
    \/ LegacyWriteStreamError
    \/ LegacyVideoStreamError
    \/ LegacyFfmpegError
    \/ LegacyFfmpegEnd
    \/ LegacyUnlinkVideoDone
    \/ LegacyReadFileResolved
    \/ LegacyReadFileRejected
    \/ LegacyUnlinkMp3Done
    \/ LegacyZipGenerated

LegacySpec == LegacyInit /\ [][LegacyNext]_vars

(***************************************************************************)
(* C32: whenever ffmpeg was started for an item, the downloaded video file *)
(* of the item has been deleted by the time downloadAndConvertToMp3        *)
(* completes, whether the conversion succeeded, failed or was cancelled.   *)
(***************************************************************************)
C32_SourceFileDeletedAfterConversion ==
    [][ (pc \in {"dc_convert", "dc_unlinkVideo", "dc_unlinkMp3"}
           /\ pc' \notin {"dc_convert", "dc_unlinkVideo", "dc_unlinkMp3"}) =>
          <<i, "mp4">> \notin files' ]_vars

(***************************************************************************)
(* C33: when an item fails or is cancelled, during the download or during *)
(* the conversion, none of its temporary files (the downloaded video, a    *)
(* partial or complete audio file) is in the workspace once                *)
(* downloadAndConvertToMp3 has thrown; so while an item of a batch is      *)
(* processed the workspace holds no file of an earlier item.               *)
(***************************************************************************)
C33_NoTempFilesAfterFailure ==
    /\ (PlaylistBranch /\ pc \in PipelinePcs) => \A f \in files : f[1] = i
    /\ (~PlaylistBranch /\ dc.thrown # "None") => files = {}

(***************************************************************************)
(* Format selection on its own: one playlist item whose resolver offers    *)
(* any set of up to MaxFormats formats.                                    *)
(***************************************************************************)
FormatInit ==
    /\ isPlaylist = TRUE
    /\ playlistItems \in { [null |-> FALSE, list |-> <<title>>] : title \in Titles }
    /\ playlistTitle = <<>>
    /\ videoFormats \in { S \in SUBSET FormatInputs : Cardinality(S) <= MaxFormats }
    /\ isClientCancelledInitially = FALSE
    /\ area = IdleArea
    /\ analysis = NoAnalysis
    /\ RequestStarted
    /\ name = <<>>
    /\ NoSanitizeCall

\* ytdl.getInfo resolved with videoFormats for a video that is not live
GetInfoResolvedWithFormats ==
    /\ pc = "dc_getInfo"
    /\ Set(AfterGetInfo(Cur, FALSE, videoFormats, aborted))

\* line 652 for videoFormats: chooseFormat throws
ChooseFormatThrowsWithFormats ==
    /\ pc = "dc_getInfo"
    /\ NoPreferredFormat(videoFormats)
    /\ Set(AfterChooseFormatThrows(Cur, aborted))

FormatNext ==
    \/ MkdtempResolved
    \/ GetInfoResolvedWithFormats
    \/ ChooseFormatThrowsWithFormats

FormatSpec == FormatInit /\ [][FormatNext]_vars

(***************************************************************************)
(* C34: the chosen format always has an audio and a video track; it is an  *)
(* mp4 format whenever an mp4 format with both tracks is offered,          *)
(* otherwise any offered format with both tracks; when no format with both *)
(* tracks is offered the item fails with the no-suitable-format error and  *)
(* no download stream is opened.                                           *)
(***************************************************************************)
AudioVideoFormats == { f \in videoFormats : f.hasAudio /\ f.hasVideo }

FormatSelected == pc = "dc_download"

C34_FormatSelection ==
    /\ FormatSelected =>
          /\ dc.format \in AudioVideoFormats
          /\ (\E f \in AudioVideoFormats : f.container = "mp4") => dc.format.container = "mp4"
          /\ dc.videoStream = "open"
    /\ (pc \notin {"start", "dc_getInfo"} /\ AudioVideoFormats # {}) => FormatSelected
    /\ (pc \notin {"start", "dc_getInfo"} /\ AudioVideoFormats = {}) =>
          /\ dc.thrown = "NoSuitableFormat"
          /\ itemStatus[1] \notin {"started", "ok"}
          /\ dc.videoStream = "none"
          /\ dc.fileWriteStream = "none"
          /\ files = {}

\* only a webm format has both tracks (the mp4 format has no audio): the
\* fallback chooses it
C34_Witness ==
    /\ FormatSelected
    /\ dc.format.container = "webm"
    /\ \E f \in videoFormats : f.container = "mp4" /\ ~f.hasAudio
    /\ dc.videoStream = "open"

(***************************************************************************)
(* The variant of downloadAudioAction that receives the cancellation state *)
(* as a boolean (src/unnamed/part_004, lines 109-474), for a playlist      *)
(* request.  isClientCancelledInitially is the value the client read from  *)
(* its signal when it made the call; the client's abort (Abort) changes    *)
(* the signal, which this variant does not receive.                        *)
(***************************************************************************)
AbortErrorCustom(tpl, title) ==
    [name |-> "AbortErrorCustom", tpl |-> tpl, title |-> title, inner |-> <<>>]

\* catch (error) of lines 437-462, through the finally block of 463-467
FlagOuterCatch(s, e) ==
    IF e.name = "AbortErrorCustom" \/ e.name = "AbortError"
    THEN Return(s, "cancelled", e)
    ELSE Return(s, "error", e)

RECURSIVE FlagLoopHead(_)

\* catch (itemError), then the next iteration   (part_004 lines 295-310)
FlagItemCatch(s, e) ==
    LET title == playlistItems.list[s.i]
    IN  IF e.name \in {"AbortErrorCustom", "AbortError"} \/ messageIncludes(e, CancelWord)
        THEN LET s1 == [SetItemStatus(s, "cancelled") EXCEPT
                          !.zip = zipFile(@, cancelledEntryName(title), "CANCELLED", s.i, NoError)]
             IN  IF isClientCancelledInitially
                 THEN FlagOuterCatch(s1, AbortErrorCustom("PlaylistCancelledItem", e.title))
                 ELSE FlagLoopHead([s1 EXCEPT !.i = @ + 1])
        ELSE FlagLoopHead([SetItemStatus(s, "failed") EXCEPT
                             !.zip = zipFile(@, errorEntryName(title), "ERROR", s.i, e),
                             !.i = @ + 1])

\* downloadAndConvertToMp3 throws e
FlagPipelineThrows(s, e) ==
    FlagItemCatch([s EXCEPT !.dc.thrown = e.tpl,
                            !.dc.pending = NoError,
                            !.dc.format = NoFormat], e)

\* the loop test, the per-item check of lines 285-287 and the call of line
\* 291 up to its first await (lines 109-125); after the last item lines 313-317
FlagLoopHead(s) ==
    IF s.i <= NumItems
    THEN IF isClientCancelledInitially
         THEN FlagOuterCatch(s, AbortErrorCustom("PlaylistCancelledIteration", <<>>))
         ELSE StartPipeline(s, playlistItems.list[s.i], FALSE)
    ELSE IF isClientCancelledInitially
         THEN FlagOuterCatch(s, AbortErrorCustom("PlaylistCancelledBeforeZip", <<>>))
         ELSE [s EXCEPT !.pc = "zipping"]

FlagInit ==
    /\ isPlaylist = TRUE
    /\ playlistItems \in { p \in PlaylistInputs : ~p.null /\ p.list # <<>> }
    /\ playlistTitle = <<>>
    /\ videoFormats = {}
    /\ isClientCancelledInitially \in BOOLEAN
    /\ area = IdleArea
    /\ analysis = NoAnalysis
    /\ RequestStarted
    /\ name = <<>>
    /\ NoSanitizeCall

\* fsp.mkdtemp of line 273 resolved, then lines 275-291
FlagMkdtempResolved ==
    /\ pc = "start"
    /\ LET s1 == [Cur EXCEPT !.tempDir = "exists"]
       IN  Set(IF isClientCancelledInitially
               THEN FlagOuterCatch(s1, AbortErrorCustom("CancelledBeforeStart", <<>>))
               ELSE FlagLoopHead([s1 EXCEPT !.i = 1]))

\* ytdl.getInfo resolved   (lines 137-198)
FlagGetInfoResolved ==
    /\ pc = "dc_getInfo"
    /\ \E isLive \in BOOLEAN, formats \in SUBSET Formats :
         LET s1 == [Cur EXCEPT !.dc.isLive = isLive]
             chosenFormat == selectFormat(formats)
             s2 == [s1 EXCEPT !.dc.format = chosenFormat,
                              !.dc.videoStream = "open",
                              !.dc.fileWriteStream = "open",
                              !.files = @ \cup { <<i, "mp4">> }]
         IN  Set(IF isLive
                 THEN FlagPipelineThrows(s1, Err("LiveStream", dc.title, <<>>))
                 ELSE IF chosenFormat = NoFormat
                 THEN IF isClientCancelledInitially
                      THEN FlagPipelineThrows(s1,
                               AbortErrorCustom("CancelledFormatSelection", dc.title))
                      ELSE FlagPipelineThrows(s1, Err("NoSuitableFormat", dc.title, <<>>))
                 ELSE IF isClientCancelledInitially
                 THEN FlagPipelineThrows(s2,
                          AbortErrorCustom("VideoDownloadCancelled", dc.title))
                 ELSE [s2 EXCEPT !.pc = "dc_download"])

\* ytdl.chooseFormat throws at line 141
FlagChooseFormatThrows ==
    /\ pc = "dc_getInfo"
    /\ \E formats \in SUBSET Formats :
         /\ NoPreferredFormat(formats)
         /\ Set(FlagPipelineThrows([Cur EXCEPT !.dc.isLive = FALSE],
                                   Err("NoSuchFormat", <<>>, <<>>)))

\* ytdl.getInfo rejected   (lines 129-135)
FlagGetInfoRejected ==
    /\ pc = "dc_getInfo"
    /\ \E msg \in EnvMessages :
         Set(FlagPipelineThrows(Cur, Err("GetInfoFailed", dc.title, msg)))

\* fileWriteStream 'finish' (lines 172-174), then lines 200-229
FlagWriteStreamFinish ==
    /\ pc = "dc_download"
    /\ LET s1 == [Cur EXCEPT !.dc.videoStream = "ended",
                             !.dc.fileWriteStream = "finished"]
       IN  Set(IF isClientCancelledInitially
               THEN FlagPipelineThrows(s1,
                        AbortErrorCustom("CancelledBeforeConversion", dc.title))
               ELSE [s1 EXCEPT !.dc.ffmpeg = "running",
                               !.files = @ \cup { <<i, "mp3">> },
                               !.pc = "dc_convert"])

\* fileWriteStream 'error'   (lines 175-182)
FlagWriteStreamError ==
    /\ pc = "dc_download"
    /\ \E msg \in EnvMessages :
         Set(FlagPipelineThrows([Cur EXCEPT !.dc.fileWriteStream = "destroyed"],
                                Err("WriteFailed", dc.title, msg)))

\* videoStream 'error'   (lines 183-195)
FlagVideoStreamError ==
    /\ pc = "dc_download"
    /\ \E msg \in EnvMessages :
         Set(FlagPipelineThrows([Cur EXCEPT !.dc.videoStream = "destroyed",
                                           !.dc.fileWriteStream = "destroyed"],
                                Err("StreamFailed", dc.title, msg)))

\* ffmpeg 'error' (lines 231-242), the catch of lines 247-251, then the
\* unlink of the finally block is awaited
FlagFfmpegError ==
    /\ pc = "dc_convert"
    /\ \E stderr \in FfmpegStderr :
         Set([Cur EXCEPT !.dc.ffmpeg = "failed",
                         !.dc.pending = Err("FfmpegProcessingFailed", dc.title,
                                            ffmpegErrorMessage(stderr)),
                         !.pc = "dc_unlinkVideo"])

\* ffmpeg 'end' (lines 219-227), then the unlink of the finally block is awaited
FlagFfmpegEnd ==
    /\ pc = "dc_convert"
    /\ Set([Cur EXCEPT !.dc.ffmpeg = "ended", !.pc = "dc_unlinkVideo"])

\* fsp.unlink(tempVideoPath) of line 253 done, then lines 256-261; the branch
\* of lines 256-259 (which also unlinks the audio file) needs a true flag
FlagUnlinkVideoDone ==
    /\ pc = "dc_unlinkVideo"
    /\ LET s1 == [Cur EXCEPT !.files = @ \ { <<i, "mp4">> }]
       IN  Set(IF dc.pending # NoError
               THEN FlagPipelineThrows(s1, dc.pending)
               ELSE IF isClientCancelledInitially
               THEN FlagPipelineThrows([s1 EXCEPT !.files = @ \ { <<i, "mp3">> }],
                        AbortErrorCustom("CancelledPostFfmpeg", dc.title))
               ELSE PipelineReturns(s1))

\* fsp.readFile of line 292 resolved, then lines 293-294
FlagReadFileResolved ==
    /\ pc = "readFile"
    /\ Set([SetItemStatus(Cur, "ok") EXCEPT
              !.zip = zipFile(@, mp3EntryName(playlistItems.list[i]), "mp3", i, NoError),
              !.pc = "unlinkMp3"])

\* fsp.readFile rejected: to catch (itemError)
FlagReadFileRejected ==
    /\ pc = "readFile"
    /\ \E msg \in EnvMessages : Set(FlagItemCatch(Cur, Err("Raw", <<>>, msg)))

\* fsp.unlink(mp3Path) of line 294 done, then the next iteration
FlagUnlinkMp3Done ==
    /\ pc = "unlinkMp3"
    /\ Set(FlagLoopHead([Cur EXCEPT !.files = @ \ { <<i, "mp3">> }, !.i = @ + 1]))

\* zip.generateAsync resolved, the Response is returned   (lines 317-324)
FlagZipGenerated ==
    /\ pc = "zipping"
    /\ Set(Finally([Cur EXCEPT !.headers = zipHeaders(playlistTitle),
                               !.result = "zip"]))

FlagNext ==
    \/ Abort
    \/ FlagMkdtempResolved
    \/ FlagGetInfoResolved
    \/ FlagChooseFormatThrows
    \/ FlagGetInfoRejected
    \/ FlagWriteStreamFinish
    \/ FlagWriteStreamError
    \/ FlagVideoStreamError
    \/ FlagFfmpegError
    \/ FlagFfmpegEnd
    \/ FlagUnlinkVideoDone
    \/ FlagReadFileResolved
    \/ FlagReadFileRejected
    \/ FlagUnlinkMp3Done
    \/ FlagZipGenerated
    \/ TimerFires

FlagSpec == FlagInit /\ [][FlagNext]_vars

(***************************************************************************)
(* C35: in the variant with the boolean parameter, once the client has     *)
(* cancelled a running request the per-item check stops the batch: no item *)
(* that has not been started is started.                                   *)
(***************************************************************************)
C35_FlagObservesLaterCancellation ==
    [][aborted => \A k \in Items : itemStatus[k] = "none" => itemStatus'[k] = "none"]_vars

(***************************************************************************)
(* One mounted DownloadArea (src/src/components/youtube/DownloadArea.tsx). *)
(* page.tsx renders the component only while no analysis is running and    *)
(* UrlInputForm runs one analysis at a time, so the props of a mounted     *)
(* component do not change.  A handler called by a click reads the state   *)
(* of the last render; the continuation of a handleDownload call reads     *)
(* progressDetails and abortController as they were when it was called     *)
(* (attempt.stage, attempt.abortController) and its own controller         *)
(* (attempt.aborted).  The server action is the environment: it answers    *)
(* with a Response or with { error }.                                      *)
(***************************************************************************)
\* line 61 and line 301
TerminalStages == {"idle", "completed", "error", "cancelled"}

isProcessing(stage) == stage \notin TerminalStages

\* what the message of a caught error matches in lines 161 and 167:
\* "cancelled by client" or "aborted by client", "operation cancelled", neither
ErrorKinds == {"CancelledByClient", "OperationCancelled", "Other"}

SetArea(a) ==
    /\ area' = a
    /\ UNCHANGED <<requestVars, analysis, signalVars, serverVars, sanitizeVars>>

\* finally of lines 181-186: abortController is the value of the render in
\* which handleDownload was called, newAbortController is the call's own
FinallyBlock(a, k, ended) ==
    LET a1 == [a EXCEPT !.attempts[k].pc = "done", !.attempts[k].ended = ended]
    IN  IF a.attempts[k].abortController = k
        THEN [a1 EXCEPT !.abortController = 0]
        ELSE a1

\* catch (e) of lines 158-180, then the finally block
CatchBlock(a, k, kind) ==
    LET attempt == a.attempts[k]
        clientCancelled == attempt.aborted \/ kind = "CancelledByClient"
    IN  IF clientCancelled /\ attempt.stage # "cancelled"
        THEN FinallyBlock([a EXCEPT !.stage = "cancelled"], k, "cancelled")
        ELSE IF kind = "OperationCancelled" /\ attempt.stage # "cancelled"
        THEN FinallyBlock([a EXCEPT !.stage = "cancelled"], k, "cancelled")
        ELSE IF attempt.stage # "cancelled" /\ attempt.stage # "error"
        THEN FinallyBlock([a EXCEPT !.stage = "error"], k, "error")
        ELSE FinallyBlock(a, k, "unchanged")

handleDownloadUnguarded ==
    /\ area.calls < MaxAttempts
    /\ LET k == area.calls + 1
       IN  SetArea([area EXCEPT
                      !.calls = k,
                      !.abortController = k,
                      !.stage = "downloading_video",
                      !.attempts[k] = [IdleAttempt EXCEPT
                                         !.pc = "action",
                                         !.stage = area.stage,
                                         !.abortController = area.abortController]])

\* a click on the download button, rendered when !isProcessing (line 390):
\* handleDownload up to the await of line 92   (lines 60-99)
handleDownload ==
    /\ area.calls < MaxAttempts
    /\ ~isProcessing(area.stage)
    /\ LET k == area.calls + 1
       IN  SetArea([area EXCEPT
                      !.calls = k,
                      !.abortController = k,
                      !.stage = "downloading_video",
                      !.attempts[k] = [IdleAttempt EXCEPT
                                         !.pc = "action",
                                         !.stage = area.stage,
                                         !.abortController = area.abortController]])

\* a click on the cancel button, rendered when isProcessing   (lines 204-210, 402)
handleCancelDownload ==
    /\ isProcessing(area.stage)
    /\ area.abortController # 0
    /\ LET k == area.abortController
       IN  /\ ~area.attempts[k].aborted
           /\ SetArea([area EXCEPT !.attempts[k].aborted = TRUE,
                                   !.attempts[k].abortedAt = area.attempts[k].pc])

\* downloadAudioAction answered with a Response   (lines 101-112)
ActionReturnedResponse ==
    \E k \in 1..MaxAttempts :
        /\ area.attempts[k].pc = "action"
        /\ LET attempt == area.attempts[k]
           IN  SetArea(IF attempt.aborted /\ attempt.stage # "cancelled"
                       THEN FinallyBlock([area EXCEPT !.stage = "cancelled"], k, "cancelled")
                       ELSE [area EXCEPT !.stage = "downloading_browser",
                                         !.attempts[k].pc = "blob"])

\* downloadAudioAction answered with { error }, or the call was rejected
\* (lines 101-106, 151-157 and the catch block)
ActionReturnedError ==
    \E k \in 1..MaxAttempts, kind \in ErrorKinds :
        /\ area.attempts[k].pc = "action"
        /\ LET attempt == area.attempts[k]
           IN  SetArea(IF attempt.aborted /\ attempt.stage # "cancelled"
                       THEN FinallyBlock([area EXCEPT !.stage = "cancelled"], k, "cancelled")
                       ELSE CatchBlock(area, k, kind))

\* response.blob() resolved: the link is clicked and the timer of line 139
\* is started   (lines 112-144)
BlobResolved ==
    \E k \in 1..MaxAttempts :
        /\ area.attempts[k].pc = "blob"
        /\ SetArea([FinallyBlock([area EXCEPT !.stage = "downloading_browser"], k, "none")
                      EXCEPT !.attempts[k].pc = "timer"])

\* response.blob() rejected: the body stream was errored
BlobRejected ==
    \E k \in 1..MaxAttempts, kind \in ErrorKinds :
        /\ area.attempts[k].pc = "blob"
        /\ SetArea(CatchBlock(area, k, kind))

\* the callback of the setTimeout of lines 139-144
CompletedTimerFires ==
    \E k \in 1..MaxAttempts :
        /\ area.attempts[k].pc = "timer"
        /\ SetArea([area EXCEPT !.stage = "completed",
                                !.attempts[k].pc = "done",
                                !.attempts[k].ended = "completed"])

AreaInit ==
    /\ isPlaylist = FALSE
    /\ playlistItems = [null |-> TRUE, list |-> <<>>]
    /\ playlistTitle = <<>>
    /\ videoFormats = {}
    /\ isClientCancelledInitially = FALSE
    /\ area = IdleArea
    /\ analysis = NoAnalysis
    /\ RequestStarted
    /\ name = <<>>
    /\ NoSanitizeCall

AreaNext ==
    \/ handleDownload
    \/ handleCancelDownload
    \/ ActionReturnedResponse
    \/ ActionReturnedError
    \/ BlobResolved
    \/ BlobRejected
    \/ CompletedTimerFires

AreaSpec == AreaInit /\ [][AreaNext]_vars

\* the handleDownload calls that have not ended
InFlight == { k \in 1..MaxAttempts : area.attempts[k].pc \in {"action", "blob", "timer"} }

(***************************************************************************)
(* C36: a handleDownload call whose controller the user aborted while the  *)
(* call was in progress (before the action answered, while the body was    *)
(* read, or after) ends with stage 'cancelled' and never with 'completed'. *)
(***************************************************************************)
C36_CancelledAttemptEndsCancelled ==
    \A k \in 1..MaxAttempts :
        area.attempts[k].abortedAt \in {"action", "blob", "timer"} =>
            area.attempts[k].ended \in {"none", "cancelled"}

ContentTypes == {"single", "playlist", "mixed", "unknown"}

\* a title as ytpl or ytdl give it
TitleInputs == {"", "T"}

YtplAnswers ==
    { [throws |-> TRUE, title |-> "", items |-> 0] }
        \cup [ throws : {FALSE}, title : TitleInputs, items : 0..MaxVideoItems ]

GetInfoAnswers ==
    { [throws |-> TRUE, title |-> ""] } \cup [ throws : {FALSE}, title : TitleInputs ]

\* !outputData.title
noTitle(o) == o.title \in {"undefined", ""}

\* !outputData.videoItems || outputData.videoItems.length === 0
noVideoItems(o) == ~o.hasVideoItems \/ o.videoItemsLength = 0

\* lines 93-97, 120-124 and 135-139
singleVideo(o, info) == [o EXCEPT !.title = info.title, !.type = "single"]

\* lines 102-115
playlistResult(o, playlistInfo) ==
    [o EXCEPT !.title = playlistInfo.title,
              !.hasVideoItems = TRUE,
              !.videoItemsLength = playlistInfo.items,
              !.type = "playlist"]

\* catch (playlistError)   (lines 117-133)
afterPlaylistError(o, a) ==
    IF a.videoUrlValid /\ ~a.getInfo.throws
    THEN singleVideo(o, a.getInfo)
    ELSE [o EXCEPT !.type = "unknown"]

\* catch (e) of lines 143-152
afterError(o, a) ==
    [EmptyOutput EXCEPT
       !.type = IF a.typeFromLlm \in {"mixed", "unknown"} /\ noTitle(o) /\ noVideoItems(o)
                THEN a.typeFromLlm ELSE "unknown"]

\* catch (e) of part_001 lines 130-136
legacyAfterError(o, a) == EmptyOutput

\* line 85
initialOutput(a) == [EmptyOutput EXCEPT !.type = a.typeFromLlm]

\* the try block of lines 87-142; caught is what its catch block leaves
resolveMetadata(a, caught) ==
    LET o == initialOutput(a)
    IN  IF a.listUrl
        THEN IF a.ytpl.throws
             THEN afterPlaylistError(o, a)
             ELSE IF ~a.playlistIdValid
             THEN IF a.videoUrlValid
                  THEN IF a.getInfo.throws
                       THEN afterPlaylistError(o, a)
                       ELSE singleVideo(o, a.getInfo)
                  ELSE [o EXCEPT !.type = "unknown"]
             ELSE playlistResult(o, a.ytpl)
        ELSE IF a.videoUrlValid
        THEN IF a.getInfo.throws
             THEN caught
             ELSE singleVideo(o, a.getInfo)
        ELSE [o EXCEPT !.type = IF a.typeFromLlm \notin {"single", "playlist"}
                                 THEN a.typeFromLlm ELSE "unknown"]

\* lines 154-160
validatePlaylist(o) ==
    IF o.type = "playlist" /\ noVideoItems(o) /\ ~noTitle(o)
    THEN o
    ELSE IF o.type = "playlist" /\ (noTitle(o) \/ noVideoItems(o))
    THEN [o EXCEPT !.type = "unknown"]
    ELSE o

\* part_001 lines 140-145
legacyValidatePlaylist(o) ==
    IF o.type = "playlist" /\ noVideoItems(o) /\ noTitle(o)
    THEN [o EXCEPT !.type = "unknown"]
    ELSE o

\* lines 163-165 (part_001 lines 146-148)
validateSingle(o) ==
    IF o.type = "single" /\ noTitle(o) THEN [o EXCEPT !.type = "unknown"] ELSE o

\* lines 167-177 (part_001 lines 149-154)
reevaluateUnknown(o) ==
    IF o.type = "unknown" /\ (~noTitle(o) \/ ~noVideoItems(o))
    THEN IF ~noVideoItems(o)
         THEN [o EXCEPT !.type = "playlist"]
         ELSE [o EXCEPT !.type = "single"]
    ELSE o

AnalysisInit ==
    /\ isPlaylist = FALSE
    /\ playlistItems = [null |-> TRUE, list |-> <<>>]
    /\ playlistTitle = <<>>
    /\ videoFormats = {}
    /\ isClientCancelledInitially = FALSE
    /\ area = IdleArea
    /\ analysis \in [ pc : {"called"}, typeFromLlm : ContentTypes, listUrl : BOOLEAN,
                      playlistIdValid : BOOLEAN, videoUrlValid : BOOLEAN,
                      ytpl : YtplAnswers, getInfo : GetInfoAnswers,
                      outputData : {EmptyOutput} ]
    /\ RequestStarted
    /\ name = <<>>
    /\ NoSanitizeCall

SetAnalysis(o, variant) ==
    /\ analysis' = [analysis EXCEPT !.pc = variant, !.outputData = o]
    /\ UNCHANGED <<requestVars, area, signalVars, serverVars, sanitizeVars>>

\* analyzeYoutubeUrlFlow   (lines 81-180)
analyzeYoutubeUrlFlow ==
    /\ analysis.pc = "called"
    /\ LET caught == afterError(initialOutput(analysis), analysis)
       IN  SetAnalysis(reevaluateUnknown(validateSingle(validatePlaylist(
                           resolveMetadata(analysis, caught)))), "returned")

\* analyzeYoutubeUrlFlow of src/unnamed/part_001   (lines 71-157)
legacyAnalyzeYoutubeUrlFlow ==
    /\ analysis.pc = "called"
    /\ LET caught == legacyAfterError(initialOutput(analysis), analysis)
       IN  SetAnalysis(reevaluateUnknown(validateSingle(legacyValidatePlaylist(
                           resolveMetadata(analysis, caught)))), "returnedLegacy")

AnalysisNext ==
    \/ analyzeYoutubeUrlFlow
    \/ legacyAnalyzeYoutubeUrlFlow

AnalysisSpec == AnalysisInit /\ [][AnalysisNext]_vars

(***************************************************************************)
(* C38: the flow never returns type 'playlist' or type 'single' for a      *)
(* result without a title.                                                 *)
(***************************************************************************)
C38_TypedResultHasTitle ==
    analysis.pc \in {"returned", "returnedLegacy"} =>
        (analysis.outputData.type \in {"playlist", "single"} =>
            ~noTitle(analysis.outputData))

(***************************************************************************)
(* C39: the polling interval of the download phase runs only while         *)
(* downloadPromise is pending and the one of the conversion phase only     *)
(* while conversionPromise is pending: each is cleared on every path that  *)
(* settles its promise, so none is left when downloadAndConvertToMp3 has   *)
(* returned or thrown.                                                     *)
(***************************************************************************)
C39_IntervalsCleared ==
    /\ dc.downloadInterval => pc = "dc_download"
    /\ dc.conversionInterval => pc = "dc_convert"

\* the conversion was cancelled by its poll tick, which killed ffmpeg, and
\* the call has thrown: no interval is left
C39_Witness ==
    /\ dc.ffmpegKilled
    /\ dc.thrown = "CancelledDuringFfmpeg"
    /\ pc \notin PipelinePcs
    /\ ~dc.conversionInterval
    /\ ~dc.downloadInterval

====
